---- MODULE Spec2Model ----
(***************************************************************************)
(* backup-pro: the backup walk (BackupHandler), the restore walk           *)
(* (RestoreHandler) and the persisted ArchiveMetadata map, over a small    *)
(* live filesystem.                                                        *)
(***************************************************************************)
EXTENDS Integers, Sequences, FiniteSets, TLC

VARIABLES
    fs,                \* the live filesystem: system path -> node
    conf,              \* Repository configuration: tracked paths, exclusion rules
    archive_metadata,  \* Repository.archive_metadata: the persisted map
    archive,           \* the target zip file
    bk,                \* the running BackupHandler
    rs,                \* the running RestoreHandler
    hist,              \* history of the run, read by the properties only
    index,             \* Repository's index snapshots: time -> IndexSnapshot
    scan_conf,         \* Repository configuration: scan exclusion rules
    clock,             \* int(time.time()) as the last scan read it
    dq                 \* the last call of ScanHandler.diff and what it returned

vars == <<fs, conf, archive_metadata, archive, bk, rs, hist, index, scan_conf, clock, dq>>

----------------------------------------------------------------------------
(* Bounds of the model.                                                    *)

\* environment changes of the live filesystem in one behaviour
MaxFsOps == 1
\* backup runs in one behaviour
MaxBackups == 2
\* tracked paths in the configuration
MaxTracked == 2
\* scan runs in one behaviour
MaxScans == 2
\* restore runs in one behaviour
MaxRestores == 2

----------------------------------------------------------------------------
(* Paths.  An absolute path is the sequence of its names, "/" is <<>>.     *)
(* A logical path may start with the variable "$H", which expand_path      *)
(* replaces by HomeDir.                                                    *)

HomeVar == "$H"
HomeDir == <<"a", "b">>

PathSeq == << <<"a">>, <<"a", "b">>, <<"a", "b", "c">>, <<"a", "b", "d">>, <<"e">> >>
Paths == {PathSeq[i] : i \in 1..Len(PathSeq)}
Names == {"a", "b", "c", "d", "e"}

LogicalPaths == Paths \cup {<<HomeVar>>, <<HomeVar, "c">>, <<HomeVar, "d">>}

Front(p) == SubSeq(p, 1, Len(p) - 1)

\* pathlib's .parent: the parent of "/" is "/", the parent of "." is "."
PyParent(p) == IF p = <<>> THEN p ELSE Front(p)

expand_path(p) ==
    IF p # <<>> /\ p[1] = HomeVar THEN HomeDir \o Tail(p) ELSE p

IsPrefix(p, q) == Len(p) <= Len(q) /\ SubSeq(q, 1, Len(p)) = p
IsProperPrefix(p, q) == Len(p) < Len(q) /\ IsPrefix(p, q)

----------------------------------------------------------------------------
(* The live filesystem.                                                    *)

NsPerSec == 1000000000
HalfSec == NsPerSec \div 2

RealUser == "uid_real"
OtherUser == "uid_other"
RealGroup == "gid_real"
OtherGroup == "gid_other"
Null == "null"

SupportedKinds == {"dir", "lnk", "reg"}

Absent == [kind |-> "none", perm |-> "", mtime |-> 0, size |-> 0,
           uid |-> "", gid |-> "", ino |-> 0]
\* stat_path raised something else than FileNotFoundError
StatError == [Absent EXCEPT !.kind = "err"]

Exists(node) == node.kind \notin {"none", "err"}

\* the clock reading of every write the tool or the environment makes
NowNs == 2 * NsPerSec

Node(kind, ino) ==
    [kind |-> kind, perm |-> IF kind = "lnk" THEN "rwx" ELSE "rw",
     mtime |-> NsPerSec, size |-> 1, uid |-> RealUser, gid |-> RealGroup,
     ino |-> ino]

SetMax(S) ==
    IF S = {} THEN 0
    ELSE LET x == CHOOSE y \in S : \A z \in S : z <= y IN x

\* an inode number no path of the filesystem and no element of `used' has
NewIno(f, used) == 1 + SetMax({f[p].ino : p \in Paths} \cup used)

\* os.stat(path, follow_symlinks=False)
stat_path(f, p) ==
    IF p \notin Paths THEN Absent
    ELSE IF \E q \in Paths : IsProperPrefix(q, p) /\ Exists(f[q]) /\ f[q].kind # "dir"
         THEN StatError
         ELSE f[p]

Descendants(p) == {q \in Paths : IsProperPrefix(p, q)}

\* the parent directory's mtime moves when an entry is added or removed
TouchParent(f, p) ==
    IF Front(p) \in Paths /\ f[Front(p)].kind = "dir"
    THEN [f EXCEPT ![Front(p)].mtime = NowNs]
    ELSE f

\* shutil.rmtree / os.remove
FsRemove(f, p) ==
    IF ~Exists(f[p]) THEN f
    ELSE TouchParent([q \in Paths |-> IF q = p \/ IsProperPrefix(p, q) THEN Absent ELSE f[q]], p)

\* a new entry at p (its parent is a directory)
FsCreate(f, p, node) == TouchParent([f EXCEPT ![p] = node], p)

CanCreate(f, p) ==
    /\ ~Exists(f[p])
    /\ Front(p) = <<>> \/ f[Front(p)].kind = "dir"

\* sorted(path.iterdir())
iterdir(f, p) == SelectSeq(PathSeq, LAMBDA q : Front(q) = p /\ Exists(f[q]))

\* size, mode, owner and mtime belong to the inode: a change through the
\* path p shows at every path that is a hard link to the same inode; node is
\* the inode after the change
OnInode(f, p, node) ==
    [q \in Paths |-> IF Exists(f[p]) /\ Exists(f[q]) /\ f[q].ino = f[p].ino THEN node ELSE f[q]]

WellFormed(f) ==
    \A p \in Paths : Exists(f[p]) => (Front(p) = <<>> \/ f[Front(p)].kind = "dir")

----------------------------------------------------------------------------
(* ArchiveMetadata (repository/dao.py) and the handlers' shared helpers.   *)

NoMeta == [path |-> [segs |-> <<>>, dir |-> FALSE], group |-> "", mode |-> [fmt |-> "none", perm |-> ""],
           mtime_ns |-> 0, size |-> 0, user |-> ""]

\* ArchiveMetadata.__eq__ comparing mtime_ns itself, not its whole seconds
MetaEqExact(m1, m2) ==
    /\ m1.group = m2.group
    /\ m1.mode = m2.mode
    /\ m1.mtime_ns = m2.mtime_ns
    /\ m1.path = m2.path
    /\ m1.size = m2.size
    /\ m1.user = m2.user

\* ArchiveMetadata.__eq__
MetaEq(m1, m2) ==
    /\ m1.group = m2.group
    /\ m1.mode = m2.mode
    /\ m1.mtime_ns \div NsPerSec = m2.mtime_ns \div NsPerSec
    /\ m1.path = m2.path
    /\ m1.size = m2.size
    /\ m1.user = m2.user

\* dict.__eq__ over ArchiveMetadata values
MapEq(a, b) ==
    /\ DOMAIN a = DOMAIN b
    /\ \A k \in DOMAIN a : MetaEq(a[k], b[k])

\* ArchiveMetadata.is_data_different(os.stat_result)
is_data_different(m, sr) ==
    \/ m.mode.fmt # sr.kind
    \/ m.mtime_ns \div NsPerSec # sr.mtime \div NsPerSec
    \/ m.size # sr.size

\* BaseArchiveHandler._generate_archive_path: strip_anchor, "/" after a directory
generate_archive_path(p, kind) == [segs |-> p, dir |-> kind = "dir"]

\* BaseArchiveHandler._resolve_system_user, from a uid to a name and back
UserName(uid) == IF uid = RealUser THEN Null ELSE "name_other"
UserId(name) == IF name = "name_other" THEN OtherUser ELSE RealUser
GroupName(gid) == IF gid = RealGroup THEN Null ELSE "group_other"
GroupId(name) == IF name = "group_other" THEN OtherGroup ELSE RealGroup

\* BaseArchiveHandler._is_supported_type
is_supported_type(sr) == sr.kind \in SupportedKinds

\* a pattern is a name; it is found in every path that has the name in it
PatternMatches(pat, p) == \E i \in 1..Len(p) : p[i] = pat

\* BaseArchiveHandler._is_path_excluded
is_path_excluded(c, p) ==
    \/ p \in {expand_path(x) : x \in c.exclude_paths}
    \/ \E pat \in c.exclude_patterns : PatternMatches(pat, p)

\* the handlers' tracked_paths dict: keyed by system path, in the order of first
\* insertion, holding the last value inserted under the key
TrackedKeys(c) ==
    LET all == [i \in 1..Len(c.tracked) |-> expand_path(c.tracked[i].path)]
        first(i) == \A j \in 1..(i - 1) : all[j] # all[i]
        idx == SelectSeq([i \in 1..Len(all) |-> i], first)
    IN [k \in 1..Len(idx) |-> all[idx[k]]]

TrackedValue(c, sys) ==
    LET i == CHOOSE i \in 1..Len(c.tracked) :
                 /\ expand_path(c.tracked[i].path) = sys
                 /\ \A j \in (i + 1)..Len(c.tracked) : expand_path(c.tracked[j].path) # sys
    IN c.tracked[i]

IsTracked(c, sys) == \E i \in 1..Len(c.tracked) : expand_path(c.tracked[i].path) = sys

----------------------------------------------------------------------------
(* BackupHandler (services/archive_service.py).  The walk threads the      *)
(* handler's fields through as a record h.                                 *)

\* stats, scans and finished record the calls of the walk in their order: the
\* paths handed to stat_path(), the logical paths _scan_path went on with, and
\* for every directory _scan_dir finished its children and the worthy ones
NewWalk ==
    [archive_metadata |-> <<>>, stat_cache |-> <<>>, result |-> {}, scan_cache |-> {},
     stats |-> <<>>, scans |-> <<>>, finished |-> <<>>]

Put(f, k, v) == [x \in (DOMAIN f) \cup {k} |-> IF x = k THEN v ELSE f[x]]

\* BackupHandler._generate_archive_metadata
generate_archive_metadata(p, sr) ==
    [path |-> generate_archive_path(p, sr.kind), group |-> GroupName(sr.gid),
     mode |-> [fmt |-> sr.kind, perm |-> sr.perm], mtime_ns |-> sr.mtime,
     size |-> sr.size, user |-> UserName(sr.uid)]

\* BackupHandler._stat_path: the value returned (Absent for None)
StatValue(f, h, p) ==
    IF p \in DOMAIN h.stat_cache THEN h.stat_cache[p]
    ELSE LET sr == stat_path(f, p)
         IN IF Exists(sr) /\ is_supported_type(sr) THEN sr ELSE Absent

\* _stat_path without the finally clause that fills the cache
StatNotCached(f, h, p) == h.stat_cache

\* BackupHandler._stat_path: the cache after the call (the finally clause)
StatCached(f, h, p) ==
    IF p \in DOMAIN h.stat_cache THEN h.stat_cache
    ELSE LET sr == stat_path(f, p)
         IN Put(h.stat_cache, p, IF Exists(sr) THEN sr ELSE Absent)

\* BackupHandler._stat_path: the calls of stat_path() so far (line 222)
StatCalls(h, p) ==
    IF p \in DOMAIN h.stat_cache THEN h.stats ELSE Append(h.stats, p)

\* BackupHandler._refresh_backup_path
refresh_backup_path(c, bp) ==
    IF IsTracked(c, expand_path(bp)) THEN TrackedValue(c, expand_path(bp)).path ELSE bp

\* BackupPath.get_parent, then BackupHandler._get_parent_path; <<>> for None
get_parent_path(c, bp) ==
    LET sys == expand_path(bp)
    IN IF PyParent(bp) # PyParent(PyParent(bp)) THEN refresh_backup_path(c, PyParent(bp))
       ELSE IF PyParent(sys) # PyParent(PyParent(sys)) THEN refresh_backup_path(c, PyParent(sys))
       ELSE <<>>

\* BackupHandler._scan_path_metadata
RECURSIVE scan_path_metadata(_, _, _, _)
scan_path_metadata(f, c, h, bp) ==
    IF bp \in DOMAIN h.archive_metadata THEN h
    ELSE LET parent == get_parent_path(c, bp)
             h1 == IF parent # <<>> THEN scan_path_metadata(f, c, h, parent) ELSE h
             sr == StatValue(f, h1, expand_path(bp))
             metadata == IF sr = Absent THEN NoMeta
                         ELSE generate_archive_metadata(expand_path(bp), sr)
         IN [h1 EXCEPT !.stat_cache = StatCached(f, h1, expand_path(bp)),
                       !.stats = StatCalls(h1, expand_path(bp)),
                       !.archive_metadata = Put(@, bp, metadata)]

\* BackupPath.get_children, BackupHandler._get_children_paths
get_children_paths(f, c, bp) ==
    LET names == iterdir(f, expand_path(bp))
    IN [i \in 1..Len(names) |-> refresh_backup_path(c, Append(bp, names[i][Len(names[i])]))]

\* _scan_dir without the loop that returns at a child that is not worthy
ScanDirFoldsAlways(h, bp, children) ==
    LET systems == {expand_path(children[i]) : i \in 1..Len(children)}
    IN [h EXCEPT !.finished = Append(@, [path |-> expand_path(bp), children |-> systems,
                                         worthy |-> systems \cap h.result]),
                 !.result = (@ \ systems) \cup {expand_path(bp)}]

\* the last two loops of BackupHandler._scan_dir
ScanDirResult(h, bp, children) ==
    LET systems == {expand_path(children[i]) : i \in 1..Len(children)}
        done == [h EXCEPT !.finished = Append(@, [path |-> expand_path(bp), children |-> systems,
                                                  worthy |-> systems \cap h.result])]
    IN IF \E i \in 1..Len(children) : expand_path(children[i]) \notin h.result
       THEN done
       ELSE [done EXCEPT !.result = (@ \ systems) \cup {expand_path(bp)}]

RECURSIVE scan_path(_, _, _, _), ScanChildren(_, _, _, _, _)

\* BackupHandler._scan_dir
scan_dir(f, c, h, bp) ==
    LET children == get_children_paths(f, c, bp)
    IN ScanDirResult(ScanChildren(f, c, h, children, 1), bp, children)

\* the first loop of BackupHandler._scan_dir
ScanChildren(f, c, h, children, i) ==
    IF i > Len(children) THEN h
    ELSE ScanChildren(f, c, scan_path(f, c, h, children[i]), children, i + 1)

\* BackupHandler._scan_path
scan_path(f, c, h, bp) ==
    IF bp \in h.scan_cache THEN h
    ELSE LET h1 == [h EXCEPT !.scan_cache = @ \cup {bp}, !.scans = Append(@, bp)]
         IN IF is_path_excluded(c, expand_path(bp)) THEN h1
            ELSE LET h2 == scan_path_metadata(f, c, h1, bp)
                     md == h2.archive_metadata[bp]
                 IN IF md = NoMeta THEN h2
                    ELSE IF md.mode.fmt = "dir" THEN scan_dir(f, c, h2, bp)
                    ELSE [h2 EXCEPT !.result = @ \cup {expand_path(bp)}]

\* the loop of BackupHandler.backup over tracked_paths.values()
RECURSIVE ScanTracked(_, _, _, _)
ScanTracked(f, c, h, i) ==
    LET keys == TrackedKeys(c)
    IN IF i > Len(keys) THEN h
       ELSE ScanTracked(f, c, scan_path(f, c, h, TrackedValue(c, keys[i]).path), i + 1)

\* BackupHandler.backup: the map without its None entries
StripNone(m) == [k \in {x \in DOMAIN m : m[x] # NoMeta} |-> m[k]]

\* BackupHandler._is_archive_changed
is_archive_changed(new, old) == ~MapEq(new, old)

----------------------------------------------------------------------------
(* The target archive.  zip -@FSeory reads the worthy paths and leaves the *)
(* archive holding exactly them, a directory with everything beneath it    *)
(* (-r), a symlink as a link (-y).                                         *)

\* conf_file and state_file are the members conf.json and state.json beneath
\* the configuration holder
NoArchive == [exists |-> FALSE, entries |-> <<>>, conf_file |-> <<>>, state_file |-> <<>>]

ZipMembers(f, result) ==
    {p \in Paths : /\ Exists(f[p]) /\ is_supported_type(f[p])
                   /\ \E w \in result : /\ w = p \/ (IsProperPrefix(w, p) /\ f[w].kind = "dir")
                                        /\ \A q \in Paths : IsPrefix(w, q) /\ IsProperPrefix(q, p)
                                                              => f[q].kind = "dir"}

ZipEntry(node) ==
    [fmt |-> node.kind, perm |-> node.perm, size |-> IF node.kind = "dir" THEN 0 ELSE node.size]

\* the archive zip leaves behind
ZipArchive(f, result) ==
    LET members == ZipMembers(f, result)
        keys == {generate_archive_path(p, f[p].kind) : p \in members}
    IN [exists |-> TRUE, entries |-> [k \in keys |-> ZipEntry(f[k.segs])],
        conf_file |-> conf, state_file |-> archive_metadata]

----------------------------------------------------------------------------
(* BackupHandler.backup, step by step.                                     *)

Idle == [pc |-> "idle", force |-> FALSE, archive_metadata |-> <<>>, result |-> {}]

\* the walk over the tracked paths and the removal of the None entries
BackupScan(force) ==
    /\ bk.pc \in {"idle", "done"}
    /\ rs.pc = "idle"
    /\ hist.runs < MaxBackups
    /\ LET h == ScanTracked(fs, conf, NewWalk, 1)
       IN /\ bk' = [pc |-> "scanned", force |-> force,
                    archive_metadata |-> StripNone(h.archive_metadata), result |-> h.result]
          /\ hist' = [hist EXCEPT !.log = <<>>, !.dirty = FALSE, !.was_dirty = hist.dirty,
                                  !.prev_map = archive_metadata, !.prev_archive = archive,
                                  !.walk = h,
                                  !.had_archive = archive.exists]
    /\ UNCHANGED <<fs, conf, archive_metadata, archive, rs, index, scan_conf, clock, dq>>

\* neither forced nor changed: nothing is written
BackupUnchanged ==
    /\ bk.pc = "scanned"
    /\ ~(bk.force \/ is_archive_changed(bk.archive_metadata, archive_metadata))
    /\ bk' = [bk EXCEPT !.pc = "done"]
    /\ hist' = [hist EXCEPT !.runs = @ + 1]
    /\ UNCHANGED <<fs, conf, archive_metadata, archive, rs, index, scan_conf, clock, dq>>

\* a forced run that leaves the old archive in place for zip to update
BackupKeepTarget ==
    /\ bk.pc = "scanned"
    /\ bk.force
    /\ bk' = [bk EXCEPT !.pc = "removed"]
    /\ hist' = [hist EXCEPT !.log = Append(@, "remove")]
    /\ UNCHANGED <<fs, conf, archive_metadata, archive, rs, index, scan_conf, clock, dq>>

\* remove(self.target_path)
BackupRemoveTarget ==
    /\ bk.pc = "scanned"
    /\ bk.force
    /\ archive' = NoArchive
    /\ bk' = [bk EXCEPT !.pc = "removed"]
    /\ hist' = [hist EXCEPT !.log = Append(@, "remove")]
    /\ UNCHANGED <<fs, conf, archive_metadata, rs, index, scan_conf, clock, dq>>

\* a run that goes on to generate without set_archive_metadata
BackupSetMetadataSkipped ==
    /\ \/ bk.pc = "removed"
       \/ bk.pc = "scanned" /\ ~bk.force /\ is_archive_changed(bk.archive_metadata, archive_metadata)
    /\ bk' = [bk EXCEPT !.pc = "persisted"]
    /\ UNCHANGED <<fs, conf, archive_metadata, archive, rs, hist, index, scan_conf, clock, dq>>

\* self.repository.set_archive_metadata(self.archive_metadata)
BackupSetMetadata ==
    /\ \/ bk.pc = "removed"
       \/ bk.pc = "scanned" /\ ~bk.force /\ is_archive_changed(bk.archive_metadata, archive_metadata)
    /\ archive_metadata' = bk.archive_metadata
    /\ bk' = [bk EXCEPT !.pc = "persisted"]
    /\ hist' = [hist EXCEPT !.log = Append(@, "persist")]
    /\ UNCHANGED <<fs, conf, archive, rs, index, scan_conf, clock, dq>>

\* self._generate_archive()
BackupGenerateArchive ==
    /\ bk.pc = "persisted"
    /\ archive' = ZipArchive(fs, bk.result)
    /\ bk' = [bk EXCEPT !.pc = "done"]
    /\ hist' = [hist EXCEPT !.log = Append(@, IF archive.exists THEN "sync" ELSE "generate"),
                            !.runs = @ + 1, !.fs_backup = fs]
    /\ UNCHANGED <<fs, conf, archive_metadata, rs, index, scan_conf, clock, dq>>

----------------------------------------------------------------------------
(* The environment changes the live filesystem while no handler runs.      *)

EnvIdle ==
    /\ bk.pc \in {"idle", "done"}
    /\ rs.pc \in {"idle", "done"}
    /\ hist.fsops < MaxFsOps

EnvDone(f, op, p) ==
    /\ fs' = f
    /\ hist' = [hist EXCEPT !.fsops = @ + 1, !.dirty = TRUE, !.last_op = [op |-> op, path |-> p]]
    /\ UNCHANGED <<conf, archive_metadata, archive, bk, rs, index, scan_conf, clock, dq>>

EnvTouch ==
    /\ EnvIdle
    /\ \E p \in Paths, t \in {NsPerSec, NsPerSec + HalfSec, NowNs} :
           /\ Exists(fs[p])
           /\ fs[p].mtime # t
           /\ EnvDone(OnInode(fs, p, [fs[p] EXCEPT !.mtime = t]), "touch", p)

EnvChmod ==
    /\ EnvIdle
    /\ \E p \in Paths :
           /\ fs[p].kind \in {"dir", "reg"}
           /\ EnvDone(OnInode(fs, p, [fs[p] EXCEPT !.perm = IF @ = "rw" THEN "r" ELSE "rw"]), "chmod", p)

EnvChown ==
    /\ EnvIdle
    /\ \E p \in Paths :
           /\ Exists(fs[p])
           /\ EnvDone(OnInode(fs, p, [fs[p] EXCEPT !.uid = IF @ = RealUser THEN OtherUser ELSE RealUser]),
                       "chown", p)

EnvChgrp ==
    /\ EnvIdle
    /\ \E p \in Paths :
           /\ Exists(fs[p])
           /\ EnvDone(OnInode(fs, p, [fs[p] EXCEPT !.gid = IF @ = RealGroup THEN OtherGroup ELSE RealGroup]),
                       "chgrp", p)

EnvWrite ==
    /\ EnvIdle
    /\ \E p \in Paths :
           /\ fs[p].kind = "reg"
           /\ EnvDone(OnInode(fs, p, [fs[p] EXCEPT !.size = IF @ = 1 THEN 2 ELSE 1, !.mtime = NowNs]),
                       "write", p)

EnvRemove ==
    /\ EnvIdle
    /\ \E p \in Paths :
           /\ Exists(fs[p])
           /\ EnvDone(FsRemove(fs, p), "remove", p)

\* a path gives way to a new one of another type
EnvRetype ==
    /\ EnvIdle
    /\ \E p \in Paths, kind \in {"dir", "reg"} :
           /\ Exists(fs[p])
           /\ fs[p].kind # kind
           /\ EnvDone(FsCreate(FsRemove(fs, p), p,
                               [Node(kind, NewIno(fs, {})) EXCEPT !.mtime = NowNs]), "retype", p)

\* a directory arrives with regular files in it (cp -r, mv, tar x)
RECURSIVE Unpacked(_, _, _)
Unpacked(f, p, i) ==
    IF i > Len(PathSeq) THEN f
    ELSE IF Front(PathSeq[i]) = p
         THEN Unpacked(FsCreate(f, PathSeq[i], [Node("reg", NewIno(f, {})) EXCEPT !.mtime = NowNs]), p, i + 1)
         ELSE Unpacked(f, p, i + 1)

EnvUnpack ==
    /\ EnvIdle
    /\ \E p \in Paths :
           /\ CanCreate(fs, p)
           /\ \E q \in Paths : Front(q) = p
           /\ EnvDone(Unpacked(FsCreate(fs, p, [Node("dir", NewIno(fs, {})) EXCEPT !.mtime = NowNs]), p, 1),
                       "unpack", p)

\* a file or a symlink gives way to a directory with regular files in it
EnvSwapIn ==
    /\ EnvIdle
    /\ \E p \in Paths :
           /\ Exists(fs[p])
           /\ fs[p].kind # "dir"
           /\ \E q \in Paths : Front(q) = p
           /\ EnvDone(Unpacked(FsCreate(FsRemove(fs, p), p,
                                        [Node("dir", NewIno(fs, {})) EXCEPT !.mtime = NowNs]), p, 1),
                       "swap-in", p)

\* a regular file arrives with the mtime it had elsewhere (mv, cp -p, tar x)
EnvMoveIn ==
    /\ EnvIdle
    /\ \E p \in Paths :
           /\ CanCreate(fs, p)
           /\ EnvDone(FsCreate(fs, p, Node("reg", NewIno(fs, {}))), "move-in", p)

EnvCreate ==
    /\ EnvIdle
    /\ \E p \in Paths, kind \in {"dir", "lnk", "reg", "sock"} :
           /\ CanCreate(fs, p)
           /\ EnvDone(FsCreate(fs, p, [Node(kind, NewIno(fs, {})) EXCEPT !.mtime = NowNs]), "create", p)

----------------------------------------------------------------------------
(* common/utils.py: remove, chstat.                                        *)

\* remove(path, stat_result)
remove(f, p, sr) ==
    IF Exists(sr) \/ Exists(stat_path(f, p)) THEN FsRemove(f, p) ELSE f

\* chmod, chown and utime of chstat: each compares with the stat result s and
\* acts on the path only on a difference
ChstatWith(f, p, m, s) ==
    LET uid == UserId(m.user)
        gid == GroupId(m.group)
        do_mod == m # NoMeta /\ m.mode.perm # s.perm
        do_own == s.uid # uid \/ s.gid # gid
        do_time == m # NoMeta /\ m.mtime_ns \div NsPerSec # s.mtime \div NsPerSec
    IN IF ~Exists(s) \/ ((do_mod \/ do_own \/ do_time) /\ ~Exists(f[p]))
       THEN [fs |-> f, err |-> TRUE]
       ELSE [fs |-> OnInode(f, p, [f[p] EXCEPT !.perm = IF do_mod THEN m.mode.perm ELSE @,
                                            !.uid = IF do_own THEN uid ELSE @,
                                            !.gid = IF do_own THEN gid ELSE @,
                                            !.mtime = IF do_time THEN m.mtime_ns ELSE @]),
             err |-> FALSE]

\* chstat(path, mode, uid, gid, mtime_ns, stat_result)
chstat(f, p, m, sr) == ChstatWith(f, p, m, IF Exists(sr) THEN sr ELSE stat_path(f, p))

----------------------------------------------------------------------------
(* RestoreHandler (services/archive_service.py).  The walk threads the     *)
(* live filesystem and the handler's fields through as a record x; a       *)
(* RestorePath is a record rp; err is a raised exception.  A method is an  *)
(* operator of its name, and one more for each point where it goes on with *)
(* the result of a call.                                                   *)

\* RestorePath(system_path, strategy)
RestorePath(p, strategy) ==
    [system_path |-> p, strategy |-> strategy, scanned |-> FALSE, system_stat_result |-> Absent]

\* RestorePath.reset_system_metadata
reset_system_metadata(rp) == [rp EXCEPT !.scanned = FALSE, !.system_stat_result = Absent]

\* RestorePath.set_removed
set_removed(rp) == [rp EXCEPT !.system_stat_result = Absent]

\* RestoreHandler.archive_metadata.get(p): the persisted map keyed by expand_path,
\* the absolute key after the "$H" one in the sorted state file
HandlerMetadata(p) ==
    IF p \in DOMAIN archive_metadata THEN archive_metadata[p]
    ELSE IF \E k \in DOMAIN archive_metadata : expand_path(k) = p
         THEN archive_metadata[CHOOSE k \in DOMAIN archive_metadata : expand_path(k) = p]
         ELSE NoMeta

\* ZipFile.getinfo(metadata.path) finds the member
HasInfo(m) == m # NoMeta /\ m.path \in DOMAIN archive.entries

\* RestorePath.exists_on_archive
exists_on_archive(p) == HasInfo(HandlerMetadata(p))

\* the metadata with the mode and the size of the member, if there is one
WithInfo(m) ==
    IF HasInfo(m)
    THEN [m EXCEPT !.mode = [fmt |-> archive.entries[m.path].fmt,
                             perm |-> archive.entries[m.path].perm],
                   !.size = archive.entries[m.path].size]
    ELSE m

\* RestoreHandler._scan_archive_info: the archive_metadata of the path
scan_archive_info(p) == WithInfo(HandlerMetadata(p))

\* the archived path is a directory member
IsDirInfo(m) == HasInfo(m) /\ m.path.dir

\* RestorePath.is_dir_on_archive
is_dir_on_archive(p) == IsDirInfo(HandlerMetadata(p))

\* RestorePath.has_format_conflict, m the archive_metadata
FormatConflict(m, sr) == m # NoMeta /\ Exists(sr) /\ m.mode.fmt # sr.kind
has_format_conflict(rp) == FormatConflict(scan_archive_info(rp.system_path), rp.system_stat_result)

\* RestorePath.has_same_format, m the archive_metadata
SameFormat(m, sr) == m # NoMeta /\ Exists(sr) /\ m.mode.fmt = sr.kind
has_same_format(rp) == SameFormat(scan_archive_info(rp.system_path), rp.system_stat_result)

\* RestorePath.is_changed, m the archive_metadata
Changed(m, sr) ==
    m = NoMeta \/ ~Exists(sr) \/ m.mode.fmt = "dir" \/ is_data_different(m, sr)
is_changed(rp) == Changed(scan_archive_info(rp.system_path), rp.system_stat_result)

\* RestoreHandler._refresh_restore_path
refresh_restore_path(p, strategy) ==
    RestorePath(p, IF IsTracked(conf, p) THEN TrackedValue(conf, p).strategy ELSE strategy)

\* zipfile.Path: p is a member or a directory implied by one
InZip(p) == \E k \in DOMAIN archive.entries : IsPrefix(p, k.segs)

\* the RestorePath objects of the children named
ChildPaths(names, strategy) ==
    [i \in 1..Len(names) |-> refresh_restore_path(names[i], strategy)]

\* RestoreHandler._get_children_on_archive
get_children_on_archive(rp) ==
    ChildPaths(SelectSeq(PathSeq, LAMBDA q : Front(q) = rp.system_path /\ InZip(q)), rp.strategy)

\* RestoreHandler._get_children_on_system
get_children_on_system(f, rp) == ChildPaths(iterdir(f, rp.system_path), rp.strategy)

\* RestoreHandler._get_parent; a top-level path has none
HasParent(rp) == Front(rp.system_path) # <<>>
get_parent(rp) == refresh_restore_path(Front(rp.system_path), "backup-only")

\* RestoreHandler._scan_system_metadata, sr what stat_path gives
Scanned(rp, sr) ==
    IF sr.kind = "err" THEN [rp |-> [rp EXCEPT !.scanned = TRUE], err |-> TRUE]
    ELSE IF sr.kind = "none" THEN [rp |-> [rp EXCEPT !.scanned = TRUE], err |-> FALSE]
    ELSE IF is_supported_type(sr)
         THEN [rp |-> [rp EXCEPT !.scanned = TRUE, !.system_stat_result = sr], err |-> FALSE]
         ELSE [rp |-> [rp EXCEPT !.scanned = TRUE], err |-> TRUE]

\* RestoreHandler._scan_system_metadata
scan_system_metadata(f, rp) ==
    IF rp.scanned THEN [rp |-> rp, err |-> FALSE] ELSE Scanned(rp, stat_path(f, rp.system_path))

\* RestoreHandler._check_loop that never finds the identity
check_loop_never(inode_cache, sr) == FALSE

\* RestoreHandler._check_loop: the identity is in the cache
check_loop(inode_cache, sr) == Exists(sr) /\ sr.ino \in inode_cache

\* a line on the standard output
Announce(x, tag, p) == [x EXCEPT !.out = Append(@, <<tag, p>>)]

\* remove() and system_dirs.discard() of RestoreHandler._remove
Removed(x, rp) ==
    [x EXCEPT !.fs = remove(x.fs, rp.system_path, rp.system_stat_result),
              !.system_dirs = @ \ {rp.system_path}]

\* RestoreHandler._remove that removes in a dry run too
RemoveAlways(x, rp) ==
    [x |-> Removed(Announce(x, "D", rp.system_path), rp), rp |-> set_removed(rp)]

\* RestoreHandler._remove
Remove(x, rp) ==
    [x |-> IF rs.dry_run THEN Announce(x, "D", rp.system_path)
           ELSE Removed(Announce(x, "D", rp.system_path), rp),
     rp |-> set_removed(rp)]

\* RestoreHandler._chstat: after chstat of common/utils.py
ChstatApplied(x, rp, c) ==
    IF c.err THEN [x |-> x, rp |-> rp, err |-> TRUE]
    ELSE [x |-> [x EXCEPT !.fs = c.fs], rp |-> reset_system_metadata(rp), err |-> FALSE]

\* RestoreHandler._chstat: after _scan_system_metadata
ChstatScanned(x, s) ==
    IF s.err THEN [x |-> x, rp |-> s.rp, err |-> TRUE]
    ELSE ChstatApplied(x, s.rp, chstat(x.fs, s.rp.system_path,
                                       scan_archive_info(s.rp.system_path),
                                       s.rp.system_stat_result))

\* RestoreHandler._chstat
Chstat(x, rp) ==
    IF rs.dry_run THEN [x |-> x, rp |-> rp, err |-> FALSE]
    ELSE ChstatScanned(x, scan_system_metadata(x.fs, rp))

\* mkdir of common/utils.py: after chstat
MkdirDone(x, rp, c) ==
    [x |-> [x EXCEPT !.fs = c.fs], rp |-> reset_system_metadata(rp), err |-> c.err]

\* mkdir of common/utils.py: os.mkdir after os.remove of what is no directory
MkdirNew(f, p, live, used) ==
    FsCreate(IF Exists(live) THEN FsRemove(f, p) ELSE f, p,
             [Node("dir", NewIno(f, used)) EXCEPT !.mtime = NowNs])

\* mkdir of common/utils.py, live what stat_path gives
MkdirLive(x, rp, live) ==
    IF live.kind = "err" \/ ~(Front(rp.system_path) = <<>> \/ x.fs[Front(rp.system_path)].kind = "dir")
    THEN [x |-> x, rp |-> rp, err |-> TRUE]
    ELSE IF live.kind = "dir"
         THEN MkdirDone(x, rp, chstat(x.fs, rp.system_path, scan_archive_info(rp.system_path), live))
         ELSE MkdirDone(x, rp, chstat(MkdirNew(x.fs, rp.system_path, live, x.inode_cache),
                                      rp.system_path, scan_archive_info(rp.system_path), Absent))

\* RestoreHandler._mkdir
Mkdir(x, rp) ==
    IF rs.dry_run THEN [x |-> Announce(x, "C", rp.system_path), rp |-> rp, err |-> FALSE]
    ELSE MkdirLive(Announce(x, "C", rp.system_path), rp, stat_path(x.fs, rp.system_path))

RECURSIVE Makedirs(_, _), MakedirsScanned(_, _), MakedirsParent(_, _)

\* RestoreHandler._makedirs: after _mkdir
MakedirsMade(r) ==
    IF r.err THEN r
    ELSE [x |-> [r.x EXCEPT !.system_dirs = @ \cup {r.rp.system_path}], rp |-> r.rp, err |-> FALSE]

\* RestoreHandler._makedirs: after _makedirs of the parent
MakedirsParent(rp, r) ==
    IF r.err THEN [x |-> r.x, rp |-> rp, err |-> TRUE]
    ELSE MakedirsMade(Mkdir(r.x, rp))

\* RestoreHandler._makedirs: after _scan_system_metadata
MakedirsScanned(x, s) ==
    IF s.err THEN [x |-> x, rp |-> s.rp, err |-> TRUE]
    ELSE IF Exists(s.rp.system_stat_result)
         THEN [x |-> [x EXCEPT !.system_dirs = @ \cup {s.rp.system_path}], rp |-> s.rp, err |-> FALSE]
         ELSE MakedirsParent(s.rp, IF HasParent(s.rp) THEN Makedirs(x, get_parent(s.rp))
                                   ELSE [x |-> x, rp |-> s.rp, err |-> FALSE])

\* RestoreHandler._makedirs
Makedirs(x, rp) ==
    IF rp.system_path \in x.system_dirs THEN [x |-> x, rp |-> rp, err |-> FALSE]
    ELSE MakedirsScanned(x, scan_system_metadata(x.fs, rp))

RECURSIVE prune_path(_, _), PruneScanned(_, _), PruneChildren(_, _, _, _)

\* RestoreHandler._prune_path: after the children, r.ret is all(children)
PruneEmptied(rp, r) ==
    IF r.ret THEN [x |-> Remove(r.x, rp).x, ret |-> TRUE] ELSE [x |-> r.x, ret |-> FALSE]

\* the list comprehension of RestoreHandler._prune_path: after one child
PruneNext(r, children, i, all) == PruneChildren(r.x, children, i + 1, all /\ r.ret)

\* the list comprehension of RestoreHandler._prune_path: every child is pruned
PruneChildren(x, children, i, all) ==
    IF i > Len(children) THEN [x |-> x, ret |-> all]
    ELSE PruneNext(prune_path(x, children[i]), children, i, all)

\* RestoreHandler._prune_path: after _scan_system_metadata
PruneScanned(x, s) ==
    IF s.err \/ exists_on_archive(s.rp.system_path) THEN [x |-> x, ret |-> FALSE]
    ELSE IF ~Exists(s.rp.system_stat_result) THEN [x |-> x, ret |-> TRUE]
    ELSE IF s.rp.system_stat_result.kind = "dir"
         THEN PruneEmptied(s.rp, PruneChildren(x, get_children_on_system(x.fs, s.rp), 1, TRUE))
         ELSE [x |-> Remove(x, s.rp).x, ret |-> TRUE]

\* RestoreHandler._prune_path without the test for tracked and excluded paths
prune_path_unguarded(x, rp) == PruneScanned(x, scan_system_metadata(x.fs, rp))

\* RestoreHandler._prune_path
prune_path(x, rp) ==
    IF IsTracked(conf, rp.system_path) \/ is_path_excluded(conf, rp.system_path)
    THEN [x |-> x, ret |-> FALSE]
    ELSE PruneScanned(x, scan_system_metadata(x.fs, rp))

\* the pruning loop of RestoreHandler._restore_dir
RECURSIVE PruneDir(_, _, _, _)
PruneDir(x, on_system, on_archive, i) ==
    IF i > Len(on_system) THEN x
    ELSE IF \E j \in 1..Len(on_archive) : on_archive[j].system_path = on_system[i].system_path
         THEN PruneDir(x, on_system, on_archive, i + 1)
         ELSE PruneDir(prune_path(x, on_system[i]).x, on_system, on_archive, i + 1)

\* RestoreHandler._restore_dir: after the second _scan_system_metadata
RestoreDirRescanned(x, s) ==
    [x |-> x, rp |-> s.rp, children |-> IF s.err THEN <<>> ELSE get_children_on_archive(s.rp)]

\* RestoreHandler._restore_dir: after _makedirs
RestoreDirMade(made) ==
    IF made.err THEN [x |-> made.x, rp |-> made.rp, children |-> <<>>]
    ELSE RestoreDirRescanned(made.x, scan_system_metadata(made.x.fs, made.rp))

\* RestoreHandler._restore_dir: after _scan_system_metadata
RestoreDirScanned(x, s) ==
    IF s.err THEN [x |-> x, rp |-> s.rp, children |-> <<>>]
    ELSE IF Exists(s.rp.system_stat_result)
         THEN [x |-> PruneDir(x, get_children_on_system(x.fs, s.rp),
                              get_children_on_archive(s.rp), 1),
               rp |-> s.rp, children |-> get_children_on_archive(s.rp)]
         ELSE RestoreDirMade(Makedirs(x, s.rp))

\* RestoreHandler._restore_dir up to the loop over the archived children:
\* children are the paths the loop will visit
restore_dir(x, rp) == RestoreDirScanned(x, scan_system_metadata(x.fs, rp))

\* the file the tool writes: a new inode, the writer's owner and default mode
Written(f, used, m) ==
    [kind |-> m.mode.fmt, perm |-> IF m.mode.fmt = "lnk" THEN "rwx" ELSE "rw", mtime |-> NowNs,
     size |-> m.size, uid |-> RealUser, gid |-> RealGroup, ino |-> NewIno(f, used)]

\* RestoreHandler._restore_file: os.symlink, shutil.move
RestoreFileGone(x, rp) ==
    [x |-> [x EXCEPT !.fs = FsCreate(x.fs, rp.system_path,
                                     Written(x.fs, x.inode_cache, scan_archive_info(rp.system_path)))],
     rp |-> reset_system_metadata(rp)]

\* RestoreHandler._restore_file: after the announcement; a symlink goes through
\* _remove, a file through remove
RestoreFileAnnounced(x, rp) ==
    IF rs.dry_run \/ ~(Front(rp.system_path) = <<>> \/ x.fs[Front(rp.system_path)].kind = "dir")
    THEN [x |-> x, rp |-> rp]
    ELSE IF scan_archive_info(rp.system_path).mode.fmt = "lnk"
         THEN RestoreFileGone(Remove(x, rp).x, rp)
         ELSE RestoreFileGone([x EXCEPT !.fs = remove(x.fs, rp.system_path, rp.system_stat_result)], rp)

\* RestoreHandler._restore_file: after _makedirs of the parent
RestoreFileParent(rp, made) ==
    IF made.err THEN [x |-> made.x, rp |-> rp]
    ELSE RestoreFileAnnounced(Announce(made.x, "C", rp.system_path), rp)

\* RestoreHandler._restore_file: after _scan_system_metadata
RestoreFileScanned(x, s) ==
    IF s.err \/ (Exists(s.rp.system_stat_result) /\ ~is_changed(s.rp)) THEN [x |-> x, rp |-> s.rp]
    ELSE RestoreFileParent(s.rp, IF ~Exists(s.rp.system_stat_result) /\ HasParent(s.rp)
                                 THEN Makedirs(x, get_parent(s.rp))
                                 ELSE [x |-> x, rp |-> s.rp, err |-> FALSE])

\* RestoreHandler._restore_file
restore_file(x, rp) == RestoreFileScanned(x, scan_system_metadata(x.fs, rp))

RECURSIVE is_path_changed(_, _)

\* RestoreHandler._is_path_changed: any() over the archived children
AnyChanged(f, children) == \E i \in 1..Len(children) : is_path_changed(f, children[i])

\* RestoreHandler._is_path_changed: after _scan_system_metadata
IsPathChangedScanned(f, s) ==
    IF s.err THEN TRUE
    ELSE IF is_dir_on_archive(s.rp.system_path) THEN AnyChanged(f, get_children_on_archive(s.rp))
    ELSE is_changed(s.rp)

\* RestoreHandler._is_path_changed
is_path_changed(f, rp) == IsPathChangedScanned(f, scan_system_metadata(f, rp))

\* RestoreHandler._extract_tmp_path: the paths staged beneath tmp_root
extract_tmp_path(rp) == {q \in Paths : IsPrefix(rp.system_path, q) /\ InZip(q)}

RECURSIVE restore_metadata(_, _), RestoreMetadataChildren(_, _, _)

\* the loop of RestoreHandler._restore_metadata over the archived children
RestoreMetadataChildren(x, children, i) ==
    IF i > Len(children) THEN x
    ELSE RestoreMetadataChildren(restore_metadata(x, children[i]), children, i + 1)

\* RestoreHandler._restore_metadata: after _chstat
RestoreMetadataApplied(x, rp, c) ==
    IF c.err THEN x
    ELSE IF is_dir_on_archive(rp.system_path)
         THEN RestoreMetadataChildren(c.x, get_children_on_archive(rp), 1)
         ELSE c.x

\* RestoreHandler._restore_metadata: after _scan_system_metadata
RestoreMetadataScanned(x, s) ==
    IF s.err \/ ~has_same_format(s.rp) THEN x
    ELSE RestoreMetadataApplied(x, s.rp, Chstat(x, s.rp))

\* RestoreHandler._restore_metadata
restore_metadata(x, rp) == RestoreMetadataScanned(x, scan_system_metadata(x.fs, rp))

\* frames of the call stack: a call of _restore_path, the _chstat that follows
\* _restore_dir, the return of the diff utility in _check_diff
PathFrame(rp) == [op |-> "path", rp |-> rp]
ChstatFrame(rp) == [op |-> "chstat", rp |-> rp]
DiffFrame(rp) == [op |-> "diff", rp |-> rp]

\* RestoreHandler._should_restore_manually
should_restore_manually(rp) == rs.interactive \/ rp.strategy = "manual"

\* RestoreHandler._restore_manually: after the announcement, up to the call of
\* the diff utility
RestoreManuallyAnnounced(x, rp) ==
    IF rs.dry_run THEN [x |-> x, push |-> <<>>]
    ELSE [x |-> [x EXCEPT !.staged = @ \cup extract_tmp_path(rp)],
          push |-> IF rs.diff_checker THEN <<DiffFrame(rp)>> ELSE <<>>]

\* RestoreHandler._restore_manually without the test of _is_path_changed
restore_manually_always(x, rp) ==
    RestoreManuallyAnnounced(Announce(x, "M", rp.system_path), rp)

\* RestoreHandler._restore_manually
restore_manually(x, rp) ==
    IF ~is_path_changed(x.fs, rp) THEN [x |-> x, push |-> <<>>]
    ELSE RestoreManuallyAnnounced(Announce(x, "M", rp.system_path), rp)

\* RestoreHandler._restore_path: after _restore_dir, the calls for the children
\* and the _chstat of the directory
DirCalls(dir) ==
    [x |-> dir.x,
     push |-> [i \in 1..Len(dir.children) |-> PathFrame(dir.children[i])] \o <<ChstatFrame(dir.rp)>>]

\* RestoreHandler._restore_path: after _restore_file, the _chstat of the file
FileDone(file) == [x |-> Chstat(file.x, file.rp).x, push |-> <<>>]

\* RestoreHandler._restore_path: after the removal of a format conflict
ReconcileCleared(r) ==
    IF should_restore_manually(r.rp) THEN restore_manually(r.x, r.rp)
    ELSE IF is_dir_on_archive(r.rp.system_path) THEN DirCalls(restore_dir(r.x, r.rp))
    ELSE FileDone(restore_file(r.x, r.rp))

\* what RestoreHandler._restore_path does once the path is found on the archive
\* and its identity is new
Reconcile(x, rp) ==
    ReconcileCleared(IF has_format_conflict(rp) THEN Remove(x, rp) ELSE [x |-> x, rp |-> rp])

\* RestoreHandler._restore_path: the path was reconciled
Reconciled(r) == [x |-> r.x, push |-> r.push, fate |-> "reconciled"]

\* RestoreHandler._check_loop: the identity goes into the cache
Identified(x, sr) == IF Exists(sr) THEN [x EXCEPT !.inode_cache = @ \cup {sr.ino}] ELSE x

\* RestoreHandler._restore_path: after _scan_system_metadata
RestorePathScanned(x, s) ==
    IF s.err THEN [x |-> x, push |-> <<>>, fate |-> "error"]
    ELSE IF ~exists_on_archive(s.rp.system_path) THEN [x |-> x, push |-> <<>>, fate |-> "unknown"]
    ELSE IF check_loop(x.inode_cache, s.rp.system_stat_result)
         THEN [x |-> x, push |-> <<>>, fate |-> "loop"]
         ELSE Reconciled(Reconcile(Identified(x, s.rp.system_stat_result), s.rp))

\* RestoreHandler._restore_path: the handler's fields after the call, the calls
\* it makes next, and how the path fared
restore_path(x, rp) ==
    IF rp.system_path \in x.restore_cache THEN [x |-> x, push |-> <<>>, fate |-> "cached"]
    ELSE IF rp.strategy = "backup-only" \/ is_path_excluded(conf, rp.system_path)
         THEN [x |-> [x EXCEPT !.restore_cache = @ \cup {rp.system_path}], push |-> <<>>,
               fate |-> "left"]
         ELSE RestorePathScanned([x EXCEPT !.restore_cache = @ \cup {rp.system_path}],
                                 scan_system_metadata(x.fs, rp))

----------------------------------------------------------------------------
(* RestoreHandler.restore, step by step: one step per call of _restore_path,*)
(* per _chstat after _restore_dir, per return of the diff utility.         *)

\* a call that never returns to its caller
CallsAgain(push, stack) == push \o stack

\* the call on top of the stack returns, the calls it made come first
Calls(push, stack) == push \o Tail(stack)

\* the live filesystem and the handler's fields, as the walk threads them
Context ==
    [fs |-> fs, restore_cache |-> rs.restore_cache, inode_cache |-> rs.inode_cache,
     system_dirs |-> rs.system_dirs, out |-> rs.out, staged |-> rs.staged]

Commit(x, stack) ==
    /\ fs' = x.fs
    /\ rs' = [rs EXCEPT !.restore_cache = x.restore_cache, !.inode_cache = x.inode_cache,
                        !.system_dirs = x.system_dirs, !.out = x.out, !.staged = x.staged,
                        !.stack = stack]
    /\ UNCHANGED <<conf, archive_metadata, archive, bk, index, scan_conf, clock, dq>>

\* a pattern re.compile raises re.error for
InvalidPattern == "("

\* no RestoreHandler yet; reader is the zipfile.ZipFile of the handler:
\* "none" before it is opened, then "open", then "closed"
NoRestore == [pc |-> "idle", reader |-> "none"]

\* ArchiveService.add_archive_exclude_pattern: the pattern is stored as given
AddArchiveExcludePattern(pattern) ==
    /\ rs.pc = "idle"
    /\ bk.pc \in {"idle", "done"}
    /\ pattern \notin conf.exclude_patterns
    /\ conf' = [conf EXCEPT !.exclude_patterns = @ \cup {pattern}]
    /\ UNCHANGED <<fs, archive_metadata, archive, bk, rs, hist, index, scan_conf, clock, dq>>

\* RestoreHandler.__init__ runs to its end: zipfile.ZipFile opens the target
\* and every exclude pattern compiles
CanPrepare ==
    /\ archive.exists
    /\ InvalidPattern \notin conf.exclude_patterns

\* RestoreHandler.__init__ and the head of restore(): the archive opens, the
\* staging directory is made, the tracked paths wait in their order
RestoreBegin(dry_run, interactive, diff_checker) ==
    /\ bk.pc \in {"idle", "done"}
    /\ CanPrepare
    /\ LET keys == TrackedKeys(conf)
       IN rs' = [pc |-> "run", reader |-> "open",
                 dry_run |-> dry_run, interactive |-> interactive,
                 diff_checker |-> diff_checker, tmp_root |-> TRUE,
                 restore_cache |-> {}, inode_cache |-> {}, system_dirs |-> {},
                 out |-> <<>>, staged |-> {},
                 stack |-> [i \in 1..Len(keys) |->
                               PathFrame(RestorePath(keys[i], TrackedValue(conf, keys[i]).strategy))]]
    /\ hist' = [hist EXCEPT !.fs_start = fs, !.reconciled = <<>>, !.skipped = {},
                            !.manual = <<>>, !.failed = {}, !.restores = @ + 1,
                            !.after = rs.pc,
                            !.prev_dry = rs.pc = "done" /\ rs.dry_run,
                            !.prev_out = IF rs.pc = "done" THEN rs.out ELSE <<>>]
    /\ UNCHANGED <<fs, conf, archive_metadata, archive, bk, index, scan_conf, clock, dq>>

\* ArchiveService.restore
RestoreStart(dry_run, interactive, diff_checker) ==
    /\ rs.pc = "idle"
    /\ RestoreBegin(dry_run, interactive, diff_checker)

\* ArchiveService.restore(dry_run=False, interactive=False) once more, right
\* after a restore that came to its end or was interrupted
RestoreAgain ==
    /\ rs.pc \in {"done", "interrupted"}
    /\ hist.restores < MaxRestores
    /\ ~rs.dry_run /\ ~rs.interactive
    /\ RestoreBegin(FALSE, FALSE, rs.diff_checker)

\* ArchiveService.restore(dry_run=False) right after a dry run with the same
\* interactive flag came to its end
RestoreForReal ==
    /\ rs.pc = "done"
    /\ hist.restores < MaxRestores
    /\ rs.dry_run
    /\ RestoreBegin(FALSE, rs.interactive, rs.diff_checker)

\* the call ended with an exception; reader is what became of the ZipFile
RestoreFailed(reader) ==
    /\ rs.pc = "idle"
    /\ bk.pc \in {"idle", "done"}
    /\ rs' = [NoRestore EXCEPT !.pc = "failed", !.reader = reader]
    /\ UNCHANGED <<fs, conf, archive_metadata, archive, bk, hist, index, scan_conf, clock, dq>>

\* RestoreHandler._open_archive_file raises: there is no target file
RestoreOpenFails ==
    /\ ~archive.exists
    /\ RestoreFailed("none")

\* RestoreHandler.__init__ raises after _open_archive_file returned: re.compile
\* of an exclude pattern; the with statement of ArchiveService.restore has
\* not been entered and __exit__ is not called
RestoreInitFails ==
    /\ archive.exists
    /\ InvalidPattern \in conf.exclude_patterns
    /\ RestoreFailed("open")

\* RestoreHandler._detect_diff_checker raises inside the with statement:
\* DIFF_CHECKER names no executable; __exit__ closes the archive
RestoreToolMissing ==
    /\ CanPrepare
    /\ RestoreFailed("closed")

\* what Repository() holds when there is no configuration holder to load
NoStore == [tracked |-> <<>>, exclude_paths |-> {}, exclude_patterns |-> {}, conf_dir |-> FALSE]

\* the configuration holder is not there any more (a new machine): the next
\* process starts with an empty Repository
EnvLoseStore ==
    /\ rs.pc = "idle"
    /\ bk.pc \in {"idle", "done"}
    /\ archive.exists
    /\ conf.conf_dir
    /\ conf' = NoStore
    /\ archive_metadata' = <<>>
    /\ UNCHANGED <<fs, archive, bk, rs, hist, index, scan_conf, clock, dq>>

\* RestoreHandler.restore_conf has returned; loaded says whether
\* Repository.load() was called, prev_map is the map the Repository held
ConfDone(loaded) ==
    [pc |-> "conf_done", reader |-> "closed", loaded |-> loaded, prev_map |-> archive_metadata]

\* restore_conf that loads no state: the Repository is left without a map
RestoreConfDropsState(force, dry_run, readable) ==
    /\ rs.pc = "idle"
    /\ bk.pc \in {"idle", "done"}
    /\ CanPrepare
    /\ rs' = ConfDone(force \/ ~conf.conf_dir)
    /\ archive_metadata' = IF force \/ ~conf.conf_dir THEN <<>> ELSE archive_metadata
    /\ UNCHANGED <<fs, conf, archive, bk, hist, index, scan_conf, clock, dq>>

\* ArchiveService.restore_conf: the configuration holder is kept; or conf.json
\* and state.json of the archive cannot be read; or Repository.load() takes the
\* configuration and the state from them and, when it is no dry run, the
\* holder is extracted
RestoreConf(force, dry_run, readable) ==
    /\ rs.pc = "idle"
    /\ bk.pc \in {"idle", "done"}
    /\ CanPrepare
    /\ IF ~force /\ conf.conf_dir
       THEN /\ rs' = ConfDone(FALSE)
            /\ UNCHANGED <<conf, archive_metadata>>
       ELSE IF ~readable
            THEN /\ rs' = [NoRestore EXCEPT !.pc = "failed", !.reader = "closed"]
                 /\ UNCHANGED <<conf, archive_metadata>>
            ELSE /\ rs' = ConfDone(TRUE)
                 /\ conf' = [archive.conf_file EXCEPT !.conf_dir = conf.conf_dir \/ ~dry_run]
                 /\ archive_metadata' = archive.state_file
    /\ UNCHANGED <<fs, archive, bk, hist, index, scan_conf, clock, dq>>

\* the live path q is as the archive has it: the same type, and for a file or a
\* link the same size and the same mtime to the second
SameAsArchived(f, q) ==
    LET m == scan_archive_info(q)
        sr == stat_path(f, q)
    IN /\ Exists(sr)
       /\ sr.kind = m.mode.fmt
       /\ m.mode.fmt # "dir" => (sr.size = m.size /\ sr.mtime \div NsPerSec = m.mtime_ns \div NsPerSec)

\* nothing the archive holds at or beneath p differs on the live system
ContentUnchanged(f, p) ==
    \A q \in Paths : (IsPrefix(p, q) /\ InZip(q)) => SameAsArchived(f, q)

\* what one call of _restore_path did for a path of the manual-review branch
ManualVisit(rp, r) ==
    [path |-> rp.system_path,
     unchanged |-> ContentUnchanged(fs, rp.system_path),
     staged |-> r.x.staged \ rs.staged,
     announced |-> {r.x.out[i][1] : i \in (Len(rs.out) + 1)..Len(r.x.out)},
     diff |-> \E i \in 1..Len(r.push) : r.push[i].op = "diff",
     fs_same |-> r.x.fs = fs]

\* one call of _restore_path whose exception ends the walk
VisitedAborting(rp, r) ==
    /\ Commit(r.x, IF r.fate = "error" THEN <<>> ELSE Calls(r.push, rs.stack))
    /\ hist' = [hist EXCEPT
           !.reconciled = IF r.fate = "reconciled"
                          THEN Append(@, [path |-> rp.system_path,
                                          ino |-> stat_path(fs, rp.system_path).ino,
                                          manual |-> should_restore_manually(rp),
                                          late |-> hist.failed # {}])
                          ELSE @,
           !.failed = IF r.fate = "error" THEN @ \cup {rp.system_path} ELSE @]

\* one call of _restore_path: r is what the call did
Visited(rp, r) ==
    /\ Commit(r.x, Calls(r.push, rs.stack))
    /\ hist' = [hist EXCEPT
           !.reconciled = IF r.fate = "reconciled"
                          THEN Append(@, [path |-> rp.system_path,
                                          ino |-> stat_path(fs, rp.system_path).ino,
                                          manual |-> should_restore_manually(rp),
                                          late |-> hist.failed # {}])
                          ELSE @,
           !.skipped = IF r.fate = "loop" THEN @ \cup {rp.system_path} ELSE @,
           !.manual = IF r.fate = "reconciled" /\ should_restore_manually(rp)
                      THEN Append(@, ManualVisit(rp, r))
                      ELSE @,
           !.failed = IF r.fate = "error" THEN @ \cup {rp.system_path} ELSE @]

\* one call of _restore_path
RestoreVisit ==
    /\ rs.pc = "run"
    /\ rs.stack # <<>>
    /\ Head(rs.stack).op = "path"
    /\ Visited(Head(rs.stack).rp, restore_path(Context, Head(rs.stack).rp))

\* the _chstat of a directory, its children done
RestoreChstat ==
    /\ rs.pc = "run"
    /\ rs.stack # <<>>
    /\ Head(rs.stack).op = "chstat"
    /\ Commit(Chstat(Context, Head(rs.stack).rp).x, Calls(<<>>, rs.stack))
    /\ UNCHANGED hist

\* the diff utility returns: _restore_metadata over what was reviewed
RestoreDiff ==
    /\ rs.pc = "run"
    /\ rs.stack # <<>>
    /\ Head(rs.stack).op = "diff"
    /\ Commit(restore_metadata(Context, Head(rs.stack).rp), Calls(<<>>, rs.stack))
    /\ UNCHANGED hist

\* the finally clause of restore(): the staging directory goes if a diff
\* utility is configured
RestoreFinish ==
    /\ rs.pc = "run"
    /\ rs.stack = <<>>
    /\ rs' = [rs EXCEPT !.pc = "done",
                        !.reader = "closed",
                        !.tmp_root = ~rs.diff_checker,
                        !.staged = IF rs.diff_checker THEN {} ELSE @]
    /\ UNCHANGED <<fs, conf, archive_metadata, archive, bk, hist, index, scan_conf, clock, dq>>

\* the process is killed between two calls of the walk
RestoreInterrupt ==
    /\ rs.pc = "run"
    /\ ~rs.dry_run /\ ~rs.interactive
    /\ rs.stack # <<>>
    /\ rs' = [rs EXCEPT !.pc = "interrupted"]
    /\ hist' = [hist EXCEPT !.midwrite = <<>>]
    /\ UNCHANGED <<fs, conf, archive_metadata, archive, bk, index, scan_conf, clock, dq>>

\* the call of _restore_file on top of the stack overwrites a regular file
OverwritesFile(rp) ==
    /\ rp.strategy = "auto"
    /\ ~is_path_excluded(conf, rp.system_path)
    /\ rp.system_path \notin rs.restore_cache
    /\ exists_on_archive(rp.system_path)
    /\ scan_archive_info(rp.system_path).mode.fmt = "reg"
    /\ fs[rp.system_path].kind = "reg"
    /\ restore_path(Context, rp).fate = "reconciled"
    /\ restore_path(Context, rp).x.fs[rp.system_path].ino # fs[rp.system_path].ino

\* the process is killed inside _restore_file, between remove() of the live
\* file and shutil.move() of the temporary sibling
RestoreInterruptInWrite ==
    /\ rs.pc = "run"
    /\ ~rs.dry_run /\ ~rs.interactive
    /\ rs.stack # <<>>
    /\ Head(rs.stack).op = "path"
    /\ OverwritesFile(Head(rs.stack).rp)
    /\ fs' = remove(fs, Head(rs.stack).rp.system_path, fs[Head(rs.stack).rp.system_path])
    /\ rs' = [rs EXCEPT !.pc = "interrupted", !.out = Append(@, <<"C", Head(rs.stack).rp.system_path>>)]
    /\ hist' = [hist EXCEPT !.midwrite = <<Head(rs.stack).rp.system_path>>]
    /\ UNCHANGED <<conf, archive_metadata, archive, bk, index, scan_conf, clock, dq>>

RestoreWalk ==
    \/ RestoreVisit
    \/ RestoreChstat
    \/ RestoreDiff
    \/ RestoreFinish

----------------------------------------------------------------------------
(* services/scan_service.py: ScanHandler, and the index snapshots of       *)
(* repository/repository.py.                                               *)

\* Path(Path.cwd().anchor)
Root == <<>>

\* from_time / to_time left out of the call
NoTime == 0 - 1

\* int(time.time()) when the files of the initial filesystem were written:
\* no scan runs before
ClockStart == Node("reg", 0).mtime \div NsPerSec

\* "/" is a directory that is always there
RootNode == Node("dir", 0)

NoScanConf == [scan_exclude_paths |-> {}, scan_exclude_patterns |-> {}]

\* sorted(paths): "$H..." sorts before "/..."
LogicalSeq == << <<HomeVar>>, <<HomeVar, "c">>, <<HomeVar, "d">> >> \o PathSeq
SortedPaths(S) == SelectSeq(<<Root>> \o LogicalSeq, LAMBDA p : p \in S)

Range(s) == {s[i] : i \in 1..Len(s)}

\* {expand_path(k): v for k, v in snapshot.metadata.items()}; two keys with
\* one expansion were read from one file of one filesystem state
ExpandedMetadata(metadata) ==
    [p \in {expand_path(k) : k \in DOMAIN metadata} |->
         metadata[CHOOSE k \in DOMAIN metadata : expand_path(k) = p]]

\* IndexMetadata(mtime=int(stat_result.st_mtime), size=stat_result.st_size)
generate_index_metadata(sr) == [mtime |-> sr.mtime \div NsPerSec, size |-> sr.size]

\* ScanHandler._is_excluded_path
is_excluded_path(c, p) ==
    \/ p \in {expand_path(x) : x \in c.scan_exclude_paths}
    \/ \E pat \in c.scan_exclude_patterns : PatternMatches(pat, p)

\* stat_path(system_path) of ScanHandler._scan_path
index_stat_path(f, p) == IF p = Root THEN RootNode ELSE stat_path(f, p)

RECURSIVE index_scan_path(_, _, _, _)
RECURSIVE IndexScanChildren(_, _, _, _, _, _)

\* a ScanHandler in a run: self.metadata, and the system paths it has
\* called stat_path on, in order
NewScanHandler == [metadata |-> <<>>, probes |-> <<>>]

\* ScanHandler._scan_dir
index_scan_dir(f, c, h, path, system_path) ==
    IndexScanChildren(f, c, h, path, iterdir(f, system_path), 1)

IndexScanChildren(f, c, h, path, children, i) ==
    IF i > Len(children) THEN h
    ELSE IndexScanChildren(f, c, index_scan_path(f, c, h, Append(path, children[i][Len(children[i])])),
                           path, children, i + 1)

\* ScanHandler._scan_path
index_scan_path(f, c, h, path) ==
    IF path \in DOMAIN h.metadata THEN h
    ELSE LET system_path == expand_path(path)
             sr == index_stat_path(f, system_path)
             probed == [h EXCEPT !.probes = Append(@, system_path)]
             recorded == [probed EXCEPT !.metadata = Put(@, path, generate_index_metadata(sr))]
         IN IF is_excluded_path(c, system_path) THEN h
            ELSE IF ~Exists(sr) THEN probed
            ELSE IF sr.kind = "dir" THEN index_scan_dir(f, c, recorded, path, system_path)
            ELSE IF sr.kind \in {"reg", "lnk"} THEN recorded
            ELSE probed

RECURSIVE IndexScanRoots(_, _, _, _, _)
IndexScanRoots(f, c, h, roots, i) ==
    IF i > Len(roots) THEN h
    ELSE IndexScanRoots(f, c, index_scan_path(f, c, h, roots[i]), roots, i + 1)

\* Repository.set_index_snapshot: the file is named after snapshot.time
set_index_snapshot(store, snapshot) == Put(store, snapshot.time, snapshot)

\* Repository.get_index_snapshot_times
TimeSeq == [i \in 1..(ClockStart + MaxScans) |-> i]
get_index_snapshot_times(store) == SelectSeq(TimeSeq, LAMBDA t : t \in DOMAIN store)

NoSnapshot == [time |-> NoTime, paths |-> <<>>, metadata |-> <<>>]

\* IndexSnapshot(from_time, (Path(Path.cwd().anchor),), {})
EmptySnapshot(time) == [time |-> time, paths |-> <<Root>>, metadata |-> <<>>]

FromDefaultLatest(times) == times[Len(times)]

\* from_time left out: snapshot_times[-2]
FromDefault(times) == times[Len(times) - 1]

\* ScanHandler._get_snapshots; err is "" when both snapshots are resolved
get_snapshots(store, from_time, to_time) ==
    LET times == get_index_snapshot_times(store)
        to_key == IF to_time # NoTime THEN to_time ELSE times[Len(times)]
        from_key == IF from_time # NoTime THEN from_time ELSE FromDefault(times)
        failed(err) == [err |-> err, from |-> NoSnapshot, to |-> NoSnapshot]
    IN IF times = <<>> THEN failed("Scan must be called prior to calculating diff.")
       ELSE IF to_key \notin DOMAIN store THEN failed("No index found for the given to time")
       ELSE IF from_time = NoTime /\ Len(times) < 2
            THEN failed("At least two snapshots are required to calculate diff.")
       ELSE [err |-> "",
             from |-> IF from_key \in DOMAIN store THEN store[from_key] ELSE EmptySnapshot(from_time),
             to |-> store[to_key]]

\* the inner loop of _calculate_common_paths for one path1
CommonWith(path1, paths2) ==
    {IF IsPrefix(paths2[j], path1) THEN path1 ELSE paths2[j] :
         j \in {k \in 1..Len(paths2) : IsPrefix(paths2[k], path1) \/ IsPrefix(path1, paths2[k])}}

\* ScanHandler._calculate_common_paths; paths2 is a generator, which the
\* inner loop of the first path1 uses up: later path1 meet nothing
calculate_common_paths(paths1, paths2) ==
    IF paths1 = <<>> THEN {} ELSE CommonWith(paths1[1], paths2)

ExpandedSeq(paths) == [i \in 1..Len(paths) |-> expand_path(paths[i])]

\* ScanHandler._calculate_selected_paths; `pick' is the path the set of the
\* first call yields first when it is iterated
calculate_selected_paths(from_paths, to_paths, selected_paths, pick) ==
    LET result == calculate_common_paths(ExpandedSeq(from_paths), ExpandedSeq(to_paths))
    IN IF selected_paths = <<>> THEN result
       ELSE calculate_common_paths(IF result = {} THEN <<>> ELSE <<pick>>, ExpandedSeq(selected_paths))

\* the paths `pick' may be
FirstCommon(from_paths, to_paths) ==
    LET result == calculate_common_paths(ExpandedSeq(from_paths), ExpandedSeq(to_paths))
    IN IF result = {} THEN {Root} ELSE result

\* ScanHandler._is_path_selected
is_path_selected(paths, arg) == \E p \in paths : IsPrefix(p, arg)

\* ScanHandler._calculate_diff
calculate_diff(from_snapshot, to_snapshot, selected_paths) ==
    LET from_time == from_snapshot.time
        from_metadata == ExpandedMetadata(from_snapshot.metadata)
        to_metadata == ExpandedMetadata(to_snapshot.metadata)
    IN {path \in DOMAIN to_metadata :
            /\ is_path_selected(selected_paths, path)
            /\ \/ path \in DOMAIN from_metadata /\ from_metadata[path] # to_metadata[path]
               \/ to_metadata[path].mtime > from_time}
       \cup {path \in DOMAIN from_metadata :
                 path \notin DOMAIN to_metadata /\ is_path_selected(selected_paths, path)}

NoDiff == [status |-> "none", from_time |-> NoTime, to_time |-> NoTime, paths |-> <<>>,
           from |-> NoSnapshot, to |-> NoSnapshot, selected |-> {}, result |-> <<>>, err |-> ""]

ScanIdle ==
    /\ bk.pc \in {"idle", "done"}
    /\ rs.pc \in {"idle", "done"}

\* ScanHandler.scan, for the paths of ScanService.scan
IndexScan(paths) ==
    /\ ScanIdle
    /\ hist.scans < MaxScans
    /\ \E now \in {clock, clock + 1} :
           LET roots == IF paths # {} THEN SortedPaths(paths) ELSE <<Root>>
               handler == IndexScanRoots(fs, scan_conf, NewScanHandler, roots, 1)
               snapshot == [time |-> now, paths |-> roots, metadata |-> handler.metadata]
           IN /\ index' = set_index_snapshot(index, snapshot)
              /\ clock' = now
              /\ hist' = [hist EXCEPT !.scans = @ + 1, !.written = Append(@, snapshot),
                                      !.probes = handler.probes, !.fs_scan = fs]
    /\ dq' = NoDiff
    /\ UNCHANGED <<fs, conf, archive_metadata, archive, bk, rs, scan_conf>>

\* the call raised BackupProException
IndexDiffFails(from_time, to_time, paths) ==
    /\ ScanIdle
    /\ get_snapshots(index, from_time, to_time).err # ""
    /\ dq' = [NoDiff EXCEPT !.status = "error", !.from_time = from_time, !.to_time = to_time,
                            !.paths = paths, !.err = get_snapshots(index, from_time, to_time).err]
    /\ UNCHANGED <<fs, conf, archive_metadata, archive, bk, rs, hist, index, scan_conf, clock>>

\* ScanHandler.diff
IndexDiff(from_time, to_time, paths) ==
    /\ ScanIdle
    /\ get_snapshots(index, from_time, to_time).err = ""
    /\ LET got == get_snapshots(index, from_time, to_time)
       IN \E pick \in FirstCommon(got.from.paths, got.to.paths) :
              LET selected == calculate_selected_paths(got.from.paths, got.to.paths, paths, pick)
              IN dq' = [status |-> "ok", from_time |-> from_time, to_time |-> to_time, paths |-> paths,
                        from |-> got.from, to |-> got.to, selected |-> selected,
                        result |-> SortedPaths(calculate_diff(got.from, got.to, selected)), err |-> ""]
    /\ UNCHANGED <<fs, conf, archive_metadata, archive, bk, rs, hist, index, scan_conf, clock>>

----------------------------------------------------------------------------
(* The initial states: a filesystem, a configuration, nothing persisted.   *)

Strategies == {"auto", "backup-only", "manual"}

\* the kinds of /a/b, /a/b/c, /a/b/d and /e; /a is a directory
InitShapes ==
    {<<"dir", c, d, e>> : c \in {"none", "reg", "lnk", "dir", "sock"}, d \in {"none", "reg"},
                          e \in {"reg"}}
    \cup {<<b, "none", "none", "reg">> : b \in {"sock", "none"}}

ShapeFs(shape) ==
    LET kinds == <<"dir", shape[1], shape[2], shape[3], shape[4]>>
    IN [p \in Paths |->
           LET i == CHOOSE i \in 1..Len(PathSeq) : PathSeq[i] = p
           IN IF kinds[i] = "none" THEN Absent ELSE Node(kinds[i], i)]

TrackedSeqs(strategies) ==
    LET entries == [path : LogicalPaths, strategy : strategies]
        seqs(n) == {s \in [1..n -> entries] : \A i, j \in 1..n : i # j => s[i].path # s[j].path}
    IN UNION {seqs(n) : n \in 0..MaxTracked}

ExcludeChoices ==
    {[paths |-> {}, patterns |-> {}]}
    \cup {[paths |-> {p}, patterns |-> {}] : p \in {<<"a">>, <<"a", "b">>, <<"a", "b", "c">>, <<HomeVar, "d">>}}
    \cup {[paths |-> {<<"a", "b", "c">>, <<"a", "b", "d">>}, patterns |-> {}]}
    \cup {[paths |-> {}, patterns |-> {n}] : n \in {"b", "c"}}

NoHist == [log |-> <<>>, runs |-> 0, fsops |-> 0, dirty |-> FALSE, was_dirty |-> FALSE,
           prev_map |-> <<>>, prev_archive |-> NoArchive, walk |-> NewWalk, had_archive |-> FALSE,
           last_op |-> [op |-> "none", path |-> <<>>], fs_backup |-> <<>>, fs_start |-> <<>>,
           reconciled |-> <<>>, skipped |-> {}, manual |-> <<>>, failed |-> {},
           scans |-> 0, written |-> <<>>, probes |-> <<>>, fs_scan |-> <<>>,
           restores |-> 0, after |-> "idle", prev_dry |-> FALSE, prev_out |-> <<>>, midwrite |-> <<>>]

InitWith(filesystems, trackeds, excludes) ==
    /\ fs \in filesystems
    /\ \E t \in trackeds, x \in excludes :
           conf = [tracked |-> t, exclude_paths |-> x.paths, exclude_patterns |-> x.patterns,
                   conf_dir |-> TRUE]
    /\ archive_metadata = <<>>
    /\ archive = NoArchive
    /\ bk = Idle
    /\ rs = NoRestore
    /\ hist = NoHist
    /\ index = <<>>
    /\ scan_conf = NoScanConf
    /\ clock = ClockStart
    /\ dq = NoDiff

BackupNext ==
    \/ \E force \in BOOLEAN : BackupScan(force)
    \/ BackupUnchanged
    \/ BackupRemoveTarget
    \/ BackupSetMetadata
    \/ BackupGenerateArchive

EnvNext ==
    \/ EnvTouch
    \/ EnvChmod
    \/ EnvChown
    \/ EnvChgrp
    \/ EnvWrite
    \/ EnvRemove
    \/ EnvCreate

\* backup runs over every configuration, the filesystem left alone
InitFs == {ShapeFs(shape) : shape \in InitShapes}

Init == InitWith(InitFs, TrackedSeqs({"auto"}), ExcludeChoices)

Next == BackupNext

Spec == Init /\ [][Next]_vars

\* backup runs with changes of the filesystem between them
ChangeTracked == {t \in TrackedSeqs({"auto"}) : Len(t) <= 1}
ChangeExcludes == {x \in ExcludeChoices : x.patterns = {} /\ x.paths \subseteq {<<"a", "b", "c">>}}

ChangeInit == InitWith(InitFs, ChangeTracked, ChangeExcludes)

ChangeNext ==
    \/ BackupNext
    \/ hist.runs >= 1 /\ EnvNext

ChangeSpec == ChangeInit /\ [][ChangeNext]_vars

\* one backup, changes of the filesystem, one restore
HardLinked(f, p, q) == [f EXCEPT ![q] = f[p]]

RestoreFs ==
    {ShapeFs(shape) : shape \in {<<"dir", "reg", "none", "reg">>, <<"dir", "reg", "reg", "reg">>,
                                 <<"dir", "lnk", "none", "reg">>, <<"dir", "dir", "reg", "reg">>,
                                 <<"none", "none", "none", "reg">>, <<"reg", "none", "none", "reg">>}}
    \cup {HardLinked(ShapeFs(<<"dir", "reg", "reg", "reg">>), <<"a", "b", "c">>, q) :
              q \in {<<"a", "b", "d">>, <<"e">>}}

PathIndex(p) == CHOOSE i \in 1..Len(PathSeq) : PathSeq[i] = p

RestoreTracked ==
    {t \in TrackedSeqs(Strategies) :
         /\ \A i \in 1..Len(t) : t[i].path \in {<<"a">>, <<"a", "b">>, <<"a", "b", "c">>, <<"e">>}
         /\ \A i \in 1..(Len(t) - 1) :
                /\ PathIndex(t[i].path) < PathIndex(t[i + 1].path)
                /\ IsPrefix(t[i].path, t[i + 1].path) \/ t[i].path = <<"a", "b">>}

RestoreExcludes == {x \in ExcludeChoices : x.patterns = {} /\ x.paths \subseteq {<<HomeVar, "d">>}}

RestoreInit == InitWith(RestoreFs, RestoreTracked, RestoreExcludes)

RestoreEnv ==
    \/ EnvUnpack
    \/ EnvRemove
    \/ EnvRetype
    \/ EnvWrite
    \/ EnvChmod
    \/ EnvCreate
    \/ EnvSwapIn

RestoreNext ==
    \/ hist.runs = 0 /\ BackupScan(FALSE)
    \/ BackupUnchanged
    \/ BackupSetMetadata
    \/ BackupGenerateArchive
    \/ hist.runs = 1 /\ rs.pc = "idle" /\ RestoreEnv
    \/ hist.runs = 1 /\ AddArchiveExcludePattern(InvalidPattern)
    \/ RestoreOpenFails
    \/ RestoreInitFails
    \/ RestoreToolMissing
    \/ hist.runs = 1 /\ EnvLoseStore
    \/ \E force, dry_run, readable \in BOOLEAN : RestoreConf(force, dry_run, readable)
    \/ \E dry_run, interactive, diff_checker \in BOOLEAN :
           RestoreStart(dry_run, interactive, diff_checker)
    \/ RestoreWalk
    \/ RestoreInterrupt
    \/ RestoreInterruptInWrite
    \/ RestoreAgain
    \/ RestoreForReal

RestoreSpec == RestoreInit /\ [][RestoreNext]_vars

\* scans and diffs with changes of the filesystem between them
ScanFs == {ShapeFs(shape) : shape \in {<<"dir", "reg", "none", "reg">>, <<"dir", "reg", "reg", "reg">>}}

ScanConfs ==
    {NoScanConf,
     [NoScanConf EXCEPT !.scan_exclude_paths = {<<HomeVar, "d">>}],
     [NoScanConf EXCEPT !.scan_exclude_patterns = {"c"}]}

\* the paths of a scan call
ScanRoots ==
    {{}, {<<"a">>}, {<<HomeVar>>}, {<<"a">>, <<"e">>}, {<<"a">>, <<"a", "b", "d">>}}

\* the paths of a diff call
DiffFilters == {<<>>, << <<"a", "b">> >>, << <<"a", "b", "c">>, <<"e">> >>}

QueryTimes == {NoTime} \cup ClockStart..(ClockStart + MaxScans)

ScanInit ==
    /\ fs \in ScanFs
    /\ conf = [tracked |-> <<>>, exclude_paths |-> {}, exclude_patterns |-> {}, conf_dir |-> TRUE]
    /\ archive_metadata = <<>>
    /\ archive = NoArchive
    /\ bk = Idle
    /\ rs = NoRestore
    /\ hist = NoHist
    /\ index = <<>>
    /\ scan_conf \in ScanConfs
    /\ clock = ClockStart
    /\ dq = NoDiff

ScanEnv ==
    \/ EnvWrite
    \/ EnvRemove
    \/ EnvMoveIn
    \/ EnvCreate

ScanNext ==
    \/ \E paths \in ScanRoots : IndexScan(paths)
    \/ /\ dq.status = "none"
       /\ \E from_time, to_time \in QueryTimes, paths \in DiffFilters : IndexDiff(from_time, to_time, paths)
    \/ /\ dq.status = "none"
       /\ \E from_time, to_time \in QueryTimes, paths \in DiffFilters : IndexDiffFails(from_time, to_time, paths)
    \/ hist.scans >= 1 /\ dq.status = "none" /\ ScanEnv

ScanSpec == ScanInit /\ [][ScanNext]_vars

----------------------------------------------------------------------------
(* Properties of the backup run.                                           *)

\* the run has ended and the filesystem is as the run left it
BackupDone == bk.pc = "done" /\ ~hist.dirty

\* the run persisted the map and ran zip
BackupWrote ==
    /\ hist.log \in {<<"persist", "sync">>, <<"persist", "generate">>}
    /\ archive_metadata = bk.archive_metadata
    /\ archive = ZipArchive(fs, bk.result)

\* the run wrote nothing
BackupWroteNothing ==
    /\ hist.log = <<>>
    /\ archive_metadata = hist.prev_map
    /\ archive = hist.prev_archive

\* two entries as the data model compares them: mtime to the whole second
SameEntry(m1, m2) ==
    /\ m1.path = m2.path /\ m1.mode = m2.mode /\ m1.group = m2.group
    /\ m1.user = m2.user /\ m1.size = m2.size
    /\ m1.mtime_ns - (m1.mtime_ns % NsPerSec) = m2.mtime_ns - (m2.mtime_ns % NsPerSec)

SameMap(a, b) == DOMAIN a = DOMAIN b /\ \A k \in DOMAIN a : SameEntry(a[k], b[k])

\* C1: a backup without force persists the map and generates the archive if and
\* only if the map of the walk differs from the persisted one (entries compared
\* field by field, mtime to the second); a second run over an unchanged
\* filesystem writes nothing.
C1_BackupIdempotent ==
    (BackupDone /\ ~bk.force) =>
        /\ ~SameMap(bk.archive_metadata, hist.prev_map) => BackupWrote
        /\ SameMap(bk.archive_metadata, hist.prev_map) => BackupWroteNothing
        /\ (hist.runs >= 2 /\ ~hist.was_dirty) => BackupWroteNothing

\* a second run that saw only the nanoseconds of an mtime move, and wrote nothing
C1_Witness ==
    /\ BackupDone /\ ~bk.force /\ hist.runs = 2 /\ hist.was_dirty
    /\ BackupWroteNothing
    /\ \E k \in DOMAIN archive_metadata : archive_metadata[k].mtime_ns # bk.archive_metadata[k].mtime_ns

\* C2: a forced backup removes the existing archive, then persists the map, then
\* generates a new archive, in this order, whether the walk found a change or not.
C2_ForceRewrites ==
    /\ (BackupDone /\ bk.force) =>
           /\ hist.log = <<"remove", "persist", "generate">>
           /\ archive_metadata = bk.archive_metadata
           /\ archive = ZipArchive(fs, bk.result)
    /\ (bk.force /\ bk.pc \in {"removed", "persisted"}) => ~archive.exists

\* a forced run over an existing archive and an unchanged map
C2_Witness ==
    /\ BackupDone /\ bk.force /\ hist.had_archive
    /\ ~is_archive_changed(bk.archive_metadata, hist.prev_map)
    /\ DOMAIN archive_metadata # {}

\* the system paths the persisted map has an entry for
PersistedPaths == {expand_path(k) : k \in DOMAIN archive_metadata}

\* p is excluded, or lies beneath an excluded path
UnderExcluded(p) == \E q \in Paths : IsPrefix(q, p) /\ is_path_excluded(conf, q)

\* C3: after a backup run no excluded path and no path beneath one has an entry
\* in the persisted map or is in the worthy set.
C3_ExcludedNeverRecorded ==
    BackupDone => \A p \in Paths : UnderExcluded(p) => p \notin PersistedPaths /\ p \notin bk.result

\* the system paths the archive holds
ArchivedPaths == {k.segs : k \in DOMAIN archive.entries}

\* C4: after a backup run a directory has an entry in the persisted map if and
\* only if it or one of its descendants is in the archive.
C4_DirectoryEntryIffArchived ==
    (BackupDone /\ hist.log # <<>>) =>
        \A p \in Paths : fs[p].kind = "dir" =>
            (p \in PersistedPaths <=> \E q \in ArchivedPaths : IsPrefix(p, q))

\* p is a worthy path or lies beneath a worthy directory
Worthy(p) == \E w \in bk.result : IsPrefix(w, p)

\* C5: after a backup run a tracked directory with one non-excluded, probed
\* descendant is in the worthy set (itself or through a worthy directory above
\* it) and in the map, and the descendant is in the map and in the archive.
C5_DirectoryWithDescendant ==
    (BackupDone /\ hist.log # <<>>) =>
        \A p \in Paths, q \in Paths :
            ( /\ IsTracked(conf, p) /\ fs[p].kind = "dir" /\ ~UnderExcluded(p)
              /\ IsProperPrefix(p, q) /\ ~UnderExcluded(q) /\ fs[q].kind \in {"reg", "lnk"} )
            => /\ Worthy(p) /\ p \in PersistedPaths
               /\ q \in PersistedPaths /\ q \in ArchivedPaths

----------------------------------------------------------------------------
(* Properties of the restore run.                                          *)

RestoreRunning == rs.pc \in {"run", "done"}

\* q is as the backup saw it: type, size, mtime to the second, mode, owner
AsBackedUp(q) ==
    LET was == hist.fs_backup[q]
        now == fs[q]
    IN /\ now.kind = was.kind /\ now.size = was.size
       /\ now.mtime \div NsPerSec = was.mtime \div NsPerSec
       /\ now.perm = was.perm /\ now.uid = was.uid /\ now.gid = was.gid

\* C6: a tracked path with strategy auto is backed up, deleted and restored
\* (no dry run, not interactive): every archived path beneath it is back with
\* the type, size, mtime to the second, mode and owner it had.
C6_RoundTrip ==
    ( /\ rs.pc = "done" /\ ~rs.dry_run /\ ~rs.interactive
      /\ hist.last_op.op = "remove" /\ IsTracked(conf, hist.last_op.path)
      /\ \A i \in 1..Len(conf.tracked) : conf.tracked[i].strategy = "auto" )
    => \A q \in ArchivedPaths : IsPrefix(hist.last_op.path, q) => AsBackedUp(q)

\* the nearest tracked path at or above p has strategy backup-only
Protected(p) ==
    \E i \in 1..Len(conf.tracked) :
        /\ conf.tracked[i].strategy = "backup-only"
        /\ IsPrefix(conf.tracked[i].path, p)
        /\ \A j \in 1..Len(conf.tracked) :
               (IsPrefix(conf.tracked[j].path, p) /\ IsProperPrefix(conf.tracked[i].path, conf.tracked[j].path))
                   => conf.tracked[j].strategy = "backup-only"

\* p is as the restore found it; the mtime of a directory may move with its entries
Untouched(p) ==
    LET was == hist.fs_start[p]
        now == fs[p]
    IN /\ now.kind = was.kind /\ now.ino = was.ino /\ now.size = was.size
       /\ now.perm = was.perm /\ now.uid = was.uid /\ now.gid = was.gid
       /\ was.kind # "dir" => now.mtime = was.mtime

\* C7: a restore run creates, overwrites, deletes and re-attributes no path that
\* is tracked with strategy backup-only or lies beneath one.
C7_BackupOnlyUntouched ==
    RestoreRunning => \A p \in Paths : Protected(p) => Untouched(p)

\* C8: a dry run leaves the live filesystem as it found it.
C8_DryRunFrame ==
    (RestoreRunning /\ rs.dry_run) => fs = hist.fs_start

\* a dry run that announced a removal and a creation
C8_Witness ==
    /\ rs.pc = "done" /\ rs.dry_run
    /\ \E i, j \in 1..Len(rs.out) : rs.out[i][1] = "D" /\ rs.out[j][1] = "C"

\* a number that bounds the calls still to come: the calls waiting, and for every
\* path not yet visited the calls its visit can make
RestoreMeasure ==
    IF rs.pc = "run"
    THEN 1 + Len(rs.stack) + (Len(PathSeq) + 2) * Cardinality(Paths \ rs.restore_cache)
    ELSE 0

\* C9: a restore run comes to its end: while it runs a step is always there to
\* take, and every step takes the run closer to the end by a whole number.
C9_RestoreTerminates ==
    /\ []((rs.pc = "run" /\ rs.stack # <<>>) => Head(rs.stack).op \in {"path", "chstat", "diff"})
    /\ [][rs.pc = "run" => RestoreMeasure' < RestoreMeasure]_vars

\* a run over hard links that reconciled a directory and a path in it, met an
\* identity for the second time, and ended
C9_Witness ==
    /\ rs.pc = "done" /\ hist.skipped # {}
    /\ \E i, j \in 1..Len(hist.reconciled) :
           IsProperPrefix(hist.reconciled[i].path, hist.reconciled[j].path)

\* C10: in one restore run no two reconciled paths had the same live inode, and
\* the step that skips a path for its identity changes nothing and announces
\* nothing.
C10_OnePathPerIdentity ==
    /\ [](\A i, j \in 1..Len(hist.reconciled) :
              (i < j /\ hist.reconciled[i].ino # 0) => hist.reconciled[i].ino # hist.reconciled[j].ino)
    /\ [][hist'.skipped \ hist.skipped # {} =>
              (fs' = fs /\ rs'.out = rs.out /\ rs'.staged = rs.staged)]_vars

\* a path skipped because a path reconciled before it had its inode
C10_Witness ==
    \E p \in hist.skipped : \E i \in 1..Len(hist.reconciled) :
        hist.reconciled[i].ino = hist.fs_start[p].ino /\ hist.reconciled[i].path # p

----------------------------------------------------------------------------
(* Properties of the manual-review branch.                                 *)

\* C11: a path of the manual-review branch whose content is unchanged from the
\* archive has nothing staged, no [M] line announced and no diff utility called.
C11_UnchangedManualQuiet ==
    \A i \in 1..Len(hist.manual) :
        hist.manual[i].unchanged =>
            /\ hist.manual[i].staged = {}
            /\ "M" \notin hist.manual[i].announced
            /\ ~hist.manual[i].diff

\* an unchanged directory with a file in it went through the manual-review
\* branch of a run that stages and calls the diff utility for what has changed
C11_Witness ==
    /\ rs.pc = "done" /\ ~rs.dry_run /\ rs.diff_checker
    /\ \E i \in 1..Len(hist.manual) :
           /\ hist.manual[i].unchanged
           /\ \E q \in Paths : IsProperPrefix(hist.manual[i].path, q) /\ InZip(q)

\* C12: a path of the manual-review branch whose content differs from the
\* archive has its archived subtree staged, and the live filesystem is not
\* changed before the diff utility returns.
C12_ChangedManualStagedOnly ==
    \A i \in 1..Len(hist.manual) :
        (~hist.manual[i].unchanged /\ ~rs.dry_run) =>
            /\ \A q \in Paths : (IsPrefix(hist.manual[i].path, q) /\ InZip(q)) => q \in hist.manual[i].staged
            /\ hist.manual[i].fs_same

----------------------------------------------------------------------------
(* Properties of pruning.                                                  *)

\* q is a tracked root or excluded
Guarded(q) == IsTracked(conf, q) \/ is_path_excluded(conf, q)

\* the call on top of the stack restores, automatically and for real, the archived
\* directory p that is a directory on the live system
PrunesAt(p) ==
    /\ rs.pc = "run" /\ ~rs.dry_run
    /\ rs.stack # <<>>
    /\ Head(rs.stack).op = "path"
    /\ Head(rs.stack).rp.system_path = p
    /\ p \notin rs.restore_cache
    /\ Head(rs.stack).rp.strategy # "backup-only"
    /\ ~is_path_excluded(conf, p)
    /\ ~should_restore_manually(Head(rs.stack).rp)
    /\ is_dir_on_archive(p)
    /\ stat_path(fs, p).kind = "dir"
    /\ stat_path(fs, p).ino \notin rs.inode_cache

\* q is live beneath p, and the child of p above it is absent from the archive
Stray(p, q) ==
    /\ IsProperPrefix(p, q)
    /\ Exists(stat_path(fs, q))
    /\ ~InZip(SubSeq(q, 1, Len(p) + 1))

\* q is guarded, lies beneath a guarded stray path, or has a guarded live path
\* beneath it
Sheltered(p, q) ==
    \/ \E r \in Paths : IsProperPrefix(p, r) /\ IsPrefix(r, q) /\ Guarded(r)
    \/ \E r \in Paths : IsPrefix(q, r) /\ Exists(stat_path(fs, r)) /\ Guarded(r)

\* the lines the step announces
Announced == [i \in 1..(Len(rs'.out) - Len(rs.out)) |-> rs'.out[Len(rs.out) + i]]

\* C13: the call that restores an existing directory deletes a live path beneath
\* it whose line is absent from the archive exactly if the path is not tracked,
\* not excluded, not beneath such a path and has no such live path beneath it;
\* the deletions are announced children first.
C13_PruneSparesGuarded ==
    [][\A p \in Paths : (PrunesAt(p) /\ p \in rs'.restore_cache) =>
           /\ \A q \in Paths : Stray(p, q) => (Exists(fs'[q]) <=> Sheltered(p, q))
           /\ \A i, j \in 1..Len(Announced) :
                  (Announced[i][1] = "D" /\ Announced[j][1] = "D"
                       /\ IsProperPrefix(Announced[i][2], Announced[j][2])) => j < i]_vars

\* q or a live path beneath it is a socket, a device or a FIFO
Unsupported(q) ==
    \E r \in Paths : IsPrefix(q, r) /\ Exists(stat_path(fs, r)) /\ ~is_supported_type(stat_path(fs, r))

\* C13, amended: as C13, and a path of unsupported type is left in place with the
\* directories above it.
C13_PruneSparesGuardedAndUnsupported ==
    [][\A p \in Paths : (PrunesAt(p) /\ p \in rs'.restore_cache) =>
           /\ \A q \in Paths :
                  Stray(p, q) => (Exists(fs'[q]) <=> (Sheltered(p, q) \/ Unsupported(q)))
           /\ \A i, j \in 1..Len(Announced) :
                  (Announced[i][1] = "D" /\ Announced[j][1] = "D"
                       /\ IsProperPrefix(Announced[i][2], Announced[j][2])) => j < i]_vars

\* a run that found a new directory in an archived one, deleted a file in it and
\* left the directory standing for the guarded file in it
C13_Witness ==
    /\ rs.pc = "done" /\ ~rs.dry_run /\ hist.last_op.op = "unpack"
    /\ \E i \in 1..Len(rs.out), q \in Paths :
           /\ rs.out[i][1] = "D" /\ Front(rs.out[i][2]) = Front(q)
           /\ ~InZip(Front(q)) /\ Exists(fs[Front(q)])
           /\ Guarded(q) /\ Exists(fs[q])

----------------------------------------------------------------------------
(* Properties of the failure semantics.                                    *)

\* C14: a failure at one path is caught there and the walk goes on: every step
\* leaves the calls that wait behind it in place, and when the run ends every
\* tracked root was visited and so was every archived child of every directory
\* that was restored automatically.
C14_FailureLeavesWalk ==
    /\ [][(rs.pc = "run" /\ rs'.pc = "run") =>
              /\ Len(rs'.stack) >= Len(rs.stack) - 1
              /\ SubSeq(rs'.stack, Len(rs'.stack) - Len(rs.stack) + 2, Len(rs'.stack)) = Tail(rs.stack)]_vars
    /\ [](rs.pc = "done" =>
              /\ \A i \in 1..Len(conf.tracked) : expand_path(conf.tracked[i].path) \in rs.restore_cache
              /\ \A i \in 1..Len(hist.reconciled) :
                     (~hist.reconciled[i].manual /\ is_dir_on_archive(hist.reconciled[i].path)) =>
                         \A q \in Paths : (Front(q) = hist.reconciled[i].path /\ InZip(q))
                                               => q \in rs.restore_cache)

\* a run in which the probe of one tracked root failed and the next tracked root
\* was restored
C14_Witness ==
    /\ rs.pc = "done" /\ hist.failed # {}
    /\ \E i \in 1..Len(hist.reconciled) : hist.reconciled[i].late

----------------------------------------------------------------------------
(* Properties of the probe of the backup walk.                             *)

\* C15: after a backup run every path in the worthy set and every path with an
\* entry in the persisted map exists and is a directory, a regular file or a
\* symlink, and no entry of the map is null.
C15_OnlyProbedSupported ==
    BackupDone =>
        /\ \A p \in bk.result : Exists(stat_path(fs, p)) /\ is_supported_type(stat_path(fs, p))
        /\ \A k \in DOMAIN bk.archive_metadata :
               /\ bk.archive_metadata[k] # NoMeta
               /\ bk.archive_metadata[k].mode.fmt \in SupportedKinds
               /\ Exists(stat_path(fs, expand_path(k)))
               /\ is_supported_type(stat_path(fs, expand_path(k)))
        /\ hist.log # <<>> => archive_metadata = bk.archive_metadata

----------------------------------------------------------------------------
(* The diff between two index snapshots.                                   *)

DiffFrom == ExpandedMetadata(dq.from.metadata)
DiffTo == ExpandedMetadata(dq.to.metadata)
InDiffScope(p) == is_path_selected(dq.selected, p)
IsSortedDupFree(s) ==
    \A i, j \in 1..Len(s) : i < j =>
        \E a, b \in 1..Len(PathSeq) + 1 : a < b /\ (<<Root>> \o PathSeq)[a] = s[i] /\ (<<Root>> \o PathSeq)[b] = s[j]

\* C16: a diff between two stored snapshots reports a path of to_snapshot in
\* scope exactly when it is absent from from_snapshot, or its IndexMetadata
\* differs, or its mtime is later than the from time; it reports every path
\* in scope that only from_snapshot holds; the result is the sorted,
\* duplicate-free union of the two and holds nothing else.
C16_DiffReportsNewChangedRemoved ==
    (/\ dq.status = "ok"
     /\ dq.from.time \in DOMAIN index /\ dq.from = index[dq.from.time]
     /\ dq.from.time < dq.to.time) =>
        /\ \A p \in DOMAIN DiffTo : InDiffScope(p) =>
               (p \in Range(dq.result) <=>
                    \/ p \notin DOMAIN DiffFrom
                    \/ p \in DOMAIN DiffFrom /\ DiffFrom[p] # DiffTo[p]
                    \/ DiffTo[p].mtime > dq.from.time)
        /\ \A p \in DOMAIN DiffFrom \ DOMAIN DiffTo : InDiffScope(p) => p \in Range(dq.result)
        /\ Range(dq.result) \subseteq {p \in DOMAIN DiffTo \cup DOMAIN DiffFrom : InDiffScope(p)}
        /\ IsSortedDupFree(dq.result)

\* C17: with an explicit from time that matches no stored snapshot the
\* origin of the comparison is an empty snapshot at that time over the root,
\* and every path of to_snapshot in scope is reported, whatever its mtime.
C17_UnmatchedFromReportsAll ==
    (dq.status = "ok" /\ dq.from_time # NoTime /\ dq.from_time \notin DOMAIN index) =>
        /\ dq.from = EmptySnapshot(dq.from_time)
        /\ \A p \in DOMAIN DiffTo : InDiffScope(p) => p \in Range(dq.result)

\* the deeper path of every pair, one of each set, where one path equals
\* or contains the other
Overlap(S1, S2) ==
    {IF IsPrefix(p2, p1) THEN p1 ELSE p2 :
         <<p1, p2>> \in {pair \in S1 \X S2 : IsPrefix(pair[1], pair[2]) \/ IsPrefix(pair[2], pair[1])}}

ComparisonScope ==
    LET roots == Overlap(Range(ExpandedSeq(dq.from.paths)), Range(ExpandedSeq(dq.to.paths)))
    IN IF dq.paths = <<>> THEN roots ELSE Overlap(roots, Range(ExpandedSeq(dq.paths)))

\* what _calculate_diff takes for changed, and for removed
DiffChanged(p) ==
    /\ p \in DOMAIN DiffTo
    /\ \/ p \in DOMAIN DiffFrom /\ DiffFrom[p] # DiffTo[p]
       \/ DiffTo[p].mtime > dq.from.time
DiffRemoved(p) == p \in DOMAIN DiffFrom \ DOMAIN DiffTo

\* C18: the scope of a diff is the overlapping coverage of the root lists
\* of the two snapshots, over every pair of roots, intersected in the same
\* way with the paths of the call when there are any; the diff reports no
\* path outside the scope and every changed or removed path inside it.
C18_ScopeIsOverlapOfAllRoots ==
    dq.status = "ok" =>
        Range(dq.result) = {p \in DOMAIN DiffTo \cup DOMAIN DiffFrom :
                                is_path_selected(ComparisonScope, p) /\ (DiffChanged(p) \/ DiffRemoved(p))}

StoredTimes == DOMAIN index
MostRecent == CHOOSE t \in StoredTimes : \A u \in StoredTimes : u <= t
SecondMostRecent == CHOOSE t \in StoredTimes \ {MostRecent} : \A u \in StoredTimes \ {MostRecent} : u <= t

DiffMustFail ==
    \/ StoredTimes = {}
    \/ dq.to_time # NoTime /\ dq.to_time \notin StoredTimes
    \/ dq.from_time = NoTime /\ Cardinality(StoredTimes) < 2

DiffResolved ==
    /\ dq.status = "error" <=> DiffMustFail
    /\ dq.status = "ok" =>
           /\ dq.to = index[IF dq.to_time # NoTime THEN dq.to_time ELSE MostRecent]
           /\ dq.from_time = NoTime => dq.from = index[SecondMostRecent]
           /\ (dq.from_time # NoTime /\ dq.from_time \in StoredTimes) => dq.from = index[dq.from_time]

\* C19: a diff takes for to_snapshot the snapshot stored at to_time when one
\* is given and the most recent one otherwise, for from_snapshot the
\* snapshot stored at from_time when one is given and the second most recent
\* one otherwise; it fails, and no stored snapshot changes, exactly when
\* nothing is stored, when to_time matches nothing stored, or when from_time
\* is left out with fewer than two snapshots stored.
C19_SnapshotsResolvedOrError ==
    /\ [](dq.status # "none" => DiffResolved)
    /\ [][dq'.status \in {"ok", "error"} => index' = index]_vars

C19_Witness ==
    /\ dq.status = "error"
    /\ dq.from_time = NoTime /\ dq.to_time = NoTime
    /\ Cardinality(StoredTimes) = 1

----------------------------------------------------------------------------
(* The store of index snapshots.                                           *)

\* C20: every scan adds one snapshot and leaves the stored ones as they
\* are: after n scans the store lists n times and holds, for each scan, the
\* snapshot it wrote, whatever the clock readings of the scans were.
C20_EveryScanAddsOneSnapshot ==
    /\ Len(get_index_snapshot_times(index)) = hist.scans
    /\ \A i \in 1..Len(hist.written) :
           /\ hist.written[i].time \in DOMAIN index
           /\ index[hist.written[i].time] = hist.written[i]

----------------------------------------------------------------------------
(* What one scan records.                                                  *)

LastSnapshot == hist.written[Len(hist.written)]
LastRoots == Range(ExpandedSeq(LastSnapshot.paths))
ScanExcluded(p) == is_excluded_path(scan_conf, p)
ScanKind(p) == index_stat_path(hist.fs_scan, p).kind

\* p is reached from a root: every path from the root down to p is not
\* excluded, and every one above p is a directory
ScanReachable(p) ==
    \E r \in LastRoots :
        /\ IsPrefix(r, p)
        /\ \A q \in Paths \cup {Root} :
               (IsPrefix(r, q) /\ IsPrefix(q, p)) =>
                   /\ ~ScanExcluded(q)
                   /\ q # p => ScanKind(q) = "dir"

ProbeCount(p) == Cardinality({i \in 1..Len(hist.probes) : hist.probes[i] = p})

\* C21: the snapshot a scan writes has an entry for exactly the paths that
\* are reached from the roots through directories that are not excluded,
\* are not excluded themselves and are directories, regular files or
\* symlinks; and the scan probes no path twice, also when roots overlap.
C21_SnapshotIsReachableSupported ==
    hist.scans >= 1 =>
        /\ {expand_path(k) : k \in DOMAIN LastSnapshot.metadata}
               = {p \in Paths \cup {Root} : ScanReachable(p) /\ ScanKind(p) \in SupportedKinds}
        /\ \A p \in Paths \cup {Root} : ProbeCount(p) <= 1

----------------------------------------------------------------------------
(* The archive reader of a restore call.                                   *)

\* C22: when a call of restore or restore_conf has ended, by returning or by
\* raising, the archive reader it opened is closed.
C22_ReaderClosedOnEveryExit ==
    rs.pc \in {"done", "conf_done", "failed"} => rs.reader # "open"

----------------------------------------------------------------------------
(* Restore run again.                                                      *)

\* the run in progress follows at once a restore that came to its end
SecondRestore ==
    rs.pc \in {"run", "done"} /\ hist.restores = 2 /\ hist.after = "done" /\ ~hist.prev_dry

\* p holds what it held when the run began: nothing was created, deleted or
\* written in its place
EntryKept(p) ==
    /\ fs[p].kind = hist.fs_start[p].kind
    /\ fs[p].ino = hist.fs_start[p].ino
    /\ fs[p].size = hist.fs_start[p].size

\* C23: a restore (no dry run, not interactive) that follows a completed one
\* with no change of the filesystem in between announces no creation and no
\* deletion and creates, deletes and overwrites no path.
C23_RestoreIdempotent ==
    SecondRestore =>
        /\ \A i \in 1..Len(rs.out) : rs.out[i][1] \notin {"C", "D"}
        /\ \A p \in Paths : EntryKept(p)

\* the live path q has the type the archive has for it, the mtime of the
\* archive to the second, and for a file or a link the size
MatchesArchive(q) ==
    LET m == scan_archive_info(q)
    IN /\ fs[q].kind = m.mode.fmt
       /\ fs[q].mtime \div NsPerSec = m.mtime_ns \div NsPerSec
       /\ m.mode.fmt # "dir" => fs[q].size = m.size

\* C24: a restore is interrupted at some step; the complete restore (no dry
\* run, not interactive, no failed probe) that follows leaves every archived
\* path beneath the roots, all of strategy auto and nothing excluded, with the
\* type, the size and the mtime to the second that the archive has.
C24_RestoreRecoversInterrupted ==
    ( /\ rs.pc = "done" /\ hist.restores = 2 /\ hist.after = "interrupted"
      /\ hist.failed = {}
      /\ conf.exclude_paths = {} /\ conf.exclude_patterns = {}
      /\ \A i \in 1..Len(conf.tracked) : conf.tracked[i].strategy = "auto" )
    => \A q \in ArchivedPaths :
           (\E i \in 1..Len(conf.tracked) : IsPrefix(expand_path(conf.tracked[i].path), q))
               => MatchesArchive(q)

----------------------------------------------------------------------------
(* Properties of the walk of one backup run.                               *)

\* the directories _scan_dir finished in the walk of this run
FinishedDirs == {hist.walk.finished[i] : i \in 1..Len(hist.walk.finished)}

\* C25 as amended: after the walk, a directory with children none of which was
\* in the worthy set when the walk finished it is not in the worthy set; one
\* whose children are all excluded has neither itself nor a child in it; and a
\* directory without children is worthy, itself or through a directory above.
C25_NonEmptyPrunedEmptyKept ==
    (bk.pc = "scanned" /\ ~hist.dirty) =>
        \A d \in FinishedDirs :
            /\ (d.children # {} /\ d.worthy = {}) => d.path \notin bk.result
            /\ (d.children # {} /\ \A q \in d.children : is_path_excluded(conf, q))
                   => (d.path \notin bk.result /\ d.children \cap bk.result = {})
            /\ d.children = {} => Worthy(d.path)

\* the walk finished a directory whose children are all excluded, and one
\* without children
C25_Witness ==
    /\ bk.pc = "scanned" /\ ~hist.dirty
    /\ \E d \in FinishedDirs : d.children # {} /\ \A q \in d.children : is_path_excluded(conf, q)
    /\ \E d \in FinishedDirs : d.children = {}

\* C25: after the walk, a directory none of whose children was in the worthy
\* set when the walk finished it is not in the worthy set, and a directory with
\* no children, or with excluded children only, has neither itself nor a child
\* in the worthy set.
C25_PrunedDirectoryContributesNothing ==
    (bk.pc = "scanned" /\ ~hist.dirty) =>
        \A d \in FinishedDirs :
            /\ d.worthy = {} => d.path \notin bk.result
            /\ (\A q \in d.children : is_path_excluded(conf, q))
                   => (d.path \notin bk.result /\ d.children \cap bk.result = {})

\* no element of the sequence occurs twice
Once(seq) == \A i, j \in 1..Len(seq) : seq[i] = seq[j] => i = j

\* C26: in the walk of one backup run _scan_path goes on with every logical
\* path at most once and stat_path() is called for every filesystem path at
\* most once.
C26_ScannedAndStatedOnce ==
    Once(hist.walk.scans) /\ Once(hist.walk.stats)

\* a walk over two tracked roots, one beneath the other, that resolved one
\* filesystem path under two logical paths
C26_Witness ==
    /\ bk.pc = "scanned" /\ ~hist.dirty
    /\ \E i, j \in 1..Len(conf.tracked) :
           /\ IsProperPrefix(expand_path(conf.tracked[i].path), expand_path(conf.tracked[j].path))
           /\ conf.tracked[i].path \in hist.walk.scan_cache
           /\ conf.tracked[j].path \in hist.walk.scan_cache
    /\ \E k1, k2 \in DOMAIN hist.walk.archive_metadata :
           k1 # k2 /\ expand_path(k1) = expand_path(k2) /\ expand_path(k1) \in Range(hist.walk.stats)

----------------------------------------------------------------------------
(* Properties of one call of _restore_path.                                *)

\* the call on top of the stack reconciles the archived path p, whose live type
\* is not its archived type
ConflictAt(p) ==
    /\ rs.pc = "run" /\ rs.stack # <<>>
    /\ Head(rs.stack).op = "path" /\ Head(rs.stack).rp.system_path = p
    /\ restore_path(Context, Head(rs.stack).rp).fate = "reconciled"
    /\ FormatConflict(scan_archive_info(p), stat_path(fs, p))

\* the step is the call of _restore_path for p
VisitOf(p) == p \notin rs.restore_cache /\ p \in rs'.restore_cache

\* the lines the call of _restore_path for rp announces when the live path is
\* not there
AnnouncedIfAbsent(rp) ==
    LET gone == [Context EXCEPT !.fs = remove(fs, rp.system_path, fs[rp.system_path])]
        out == restore_path(gone, rp).x.out
    IN SubSeq(out, Len(rs.out) + 1, Len(out))

\* C27: the call of _restore_path for an archived path whose live type differs
\* from the archived one announces [D] for the path before anything else; when
\* it is no dry run the live path has the archived type after the call; in a
\* dry run the live filesystem stays and what follows the [D] line is what
\* the call announces for an absent path.
C27_ConflictRemovedFirst ==
    [][\A p \in Paths :
          (ConflictAt(p) /\ VisitOf(p)) =>
              /\ Len(Announced) >= 1 /\ Announced[1] = <<"D", p>>
              /\ ~rs.dry_run => fs'[p].kind = scan_archive_info(p).mode.fmt
              /\ rs.dry_run => (fs' = fs /\ Tail(Announced) = AnnouncedIfAbsent(Head(rs.stack).rp))]_vars

\* C28: while automatic restore overwrites the regular file p, also when the
\* run ends between two steps of the overwrite, the live path is a regular file
\* that is the previous one or has the archived content.
C28_OverwriteNeverLeavesGap ==
    \A i \in 1..Len(hist.midwrite) :
        LET p == hist.midwrite[i]
        IN /\ fs[p].kind = "reg"
           /\ \/ fs[p].ino = hist.fs_start[p].ino
              \/ fs[p].size = scan_archive_info(p).size

\* the call on top of the stack is for the archived file or symlink p, on the
\* automatic branch of a run that is no dry run; the live path is absent or of
\* a supported type
AutoFileAt(p) ==
    /\ rs.pc = "run" /\ rs.stack # <<>> /\ ~rs.dry_run
    /\ Head(rs.stack).op = "path" /\ Head(rs.stack).rp.system_path = p
    /\ Head(rs.stack).rp.strategy = "auto" /\ ~rs.interactive
    /\ ~is_path_excluded(conf, p)
    /\ exists_on_archive(p) /\ scan_archive_info(p).mode.fmt \in {"reg", "lnk"}
    /\ stat_path(fs, p).kind \in SupportedKinds \cup {"none"}

\* the live path p is absent or differs from the archived entry in type, size
\* or mtime to the second
DiffersFromArchive(p) ==
    LET m == scan_archive_info(p)
    IN \/ ~Exists(fs[p])
       \/ fs[p].kind # m.mode.fmt
       \/ fs[p].size # m.size
       \/ fs[p].mtime \div NsPerSec # m.mtime_ns \div NsPerSec

\* the step wrote the content of p: p is a new file or link
ContentWritten(p) == Exists(fs'[p]) /\ fs'[p].ino # fs[p].ino

\* C29: the call of _restore_path for an archived file or symlink on the
\* automatic branch writes the content if and only if the live path is absent
\* or differs in type, size or mtime to the second; when it does not write, the
\* path has the archived mode, owner and mtime after the call.
C29_RewrittenIffDataDiffers ==
    [][\A p \in Paths :
          (AutoFileAt(p) /\ VisitOf(p)) =>
              /\ ContentWritten(p) <=> DiffersFromArchive(p)
              /\ ~DiffersFromArchive(p) =>
                     LET m == scan_archive_info(p)
                     IN /\ fs'[p].perm = m.mode.perm
                        /\ fs'[p].uid = UserId(m.user) /\ fs'[p].gid = GroupId(m.group)
                        /\ fs'[p].mtime \div NsPerSec = m.mtime_ns \div NsPerSec]_vars

\* the step created, removed or replaced the live path q, or changed its mode
\* or its owner
ActedOn(q) ==
    \/ fs'[q].kind # fs[q].kind \/ fs'[q].ino # fs[q].ino
    \/ fs'[q].perm # fs[q].perm \/ fs'[q].uid # fs[q].uid \/ fs'[q].gid # fs[q].gid

\* C30: when a step of a restore run creates, removes or replaces a live path
\* or changes its mode or owner, the run has announced the path with [C], [D]
\* or [M] by the end of the step.
C30_EveryChangeAnnounced ==
    [][(rs.pc = "run" /\ rs'.pc = "run") =>
           \A q \in Paths :
               ActedOn(q) => \E i \in 1..Len(rs'.out) :
                                 rs'.out[i][1] \in {"C", "D", "M"} /\ rs'.out[i][2] = q]_vars

----------------------------------------------------------------------------
(* A dry run and the run that follows it.                                  *)

\* C31: a restore without dry_run that starts where a dry run with the same
\* flags ended (the dry run changes nothing) has announced, when it ends, the
\* lines the dry run announced, in their order.
C31_DryRunAnnouncesTheSame ==
    (rs.pc = "done" /\ hist.prev_dry) => rs.out = hist.prev_out

----------------------------------------------------------------------------
(* The staging directory of a restore call.                                *)

\* C32: when restore() has returned, the staging directory the call made and
\* what was extracted into it are gone.
C32_StagingGoneOnReturn ==
    rs.pc = "done" => (~rs.tmp_root /\ rs.staged = {})

----------------------------------------------------------------------------
(* Who changes the stored map.                                             *)

\* the step is set_archive_metadata of a backup run
BackupPersists == bk'.pc = "persisted" /\ archive_metadata' = bk.archive_metadata

\* the step is the loss of the configuration holder, no call of the program
StoreLost == rs' = rs /\ bk' = bk /\ conf.conf_dir /\ ~conf'.conf_dir

\* C33: the stored map is changed by no call but the set_archive_metadata of a
\* backup run, which replaces it with the map of its walk; restore and
\* restore_conf leave it as it was.
C33_OnlyBackupChangesMap ==
    [][(archive_metadata' # archive_metadata /\ ~StoreLost) => BackupPersists]_vars

\* C33 as amended: the stored map is changed only by a backup run, which
\* replaces it with the map of its walk, and by restore_conf when it is forced
\* or finds no configuration holder, which replaces it with the map of the
\* state file in the archive; restore leaves it.
C33_BackupOrRestoreConfChangesMap ==
    [][(archive_metadata' # archive_metadata /\ ~StoreLost) =>
           \/ BackupPersists
           \/ /\ rs.pc = "idle" /\ rs'.pc = "conf_done" /\ rs'.loaded
              /\ archive_metadata' = archive.state_file]_vars

\* restore_conf found no configuration holder and loaded the map of the archive
C33_Witness ==
    /\ rs.pc = "conf_done" /\ rs.loaded
    /\ rs.prev_map = <<>> /\ archive_metadata # <<>>
    /\ archive_metadata = archive.state_file

----------------------------------------------------------------------------
(* The strategy a path is restored under.                                  *)

\* q is a tracked root or lies beneath one
HasRoot(q) == \E p \in Paths : IsPrefix(p, q) /\ IsTracked(conf, p)

\* the nearest tracked root at or above q
NearestRoot(q) ==
    CHOOSE p \in Paths :
        /\ IsPrefix(p, q) /\ IsTracked(conf, p)
        /\ \A r \in Paths : (IsPrefix(r, q) /\ IsTracked(conf, r)) => Len(r) <= Len(p)

\* the strategy of the nearest tracked root at or above q
StrategyAt(q) == TrackedValue(conf, NearestRoot(q)).strategy

\* no other path names the file of q
SingleName(f, q) == \A r \in Paths : (Exists(f[r]) /\ Exists(f[q]) /\ f[r].ino = f[q].ino) => r = q

\* C34: no step of a restore stages a path whose nearest tracked root is
\* backup-only, or changes it on the live system: such a path is skipped, also
\* beneath an enclosing root of another strategy.
C34_NestedRootUnderOwnStrategy ==
    [][rs.pc = "run" =>
           \A q \in Paths :
               (HasRoot(q) /\ StrategyAt(q) = "backup-only" /\ SingleName(fs, q)) =>
                   /\ fs'[q] = fs[q]
                   /\ q \in rs'.staged => q \in rs.staged]_vars

----------------------------------------------------------------------------
(* The worthy set of a backup walk.                                        *)

\* the walk turns q down: it is excluded, of a type not supported, or its
\* probe failed
TurnedDown(q) ==
    \/ Exists(stat_path(fs, q)) /\ is_path_excluded(conf, q)
    \/ Exists(stat_path(fs, q)) /\ ~is_supported_type(stat_path(fs, q))
    \/ q \in DOMAIN hist.walk.stat_cache /\ stat_path(fs, q).kind = "err"

\* C35: after the walk of a backup run no member of the worthy set is above
\* another member, and no path the walk turns down lies beneath a member.
C35_WorthyAntichainCoversNoExcluded ==
    bk.pc = "scanned" =>
        /\ \A p, q \in bk.result : ~IsProperPrefix(p, q)
        /\ \A p \in bk.result : \A q \in Paths : IsProperPrefix(p, q) => ~TurnedDown(q)

----------------------------------------------------------------------------
(* What a restore may delete.                                              *)

\* q is live and restore has no business with it: it is at or beneath a live
\* excluded path, or its nearest tracked root has no entry in the archive
KeptApart(q) ==
    /\ Exists(fs[q])
    /\ \/ \E g \in Paths : IsPrefix(g, q) /\ Exists(fs[g]) /\ is_path_excluded(conf, g)
       \/ HasRoot(q) /\ ~exists_on_archive(NearestRoot(q))

\* C36: no step of a restore deletes a live path that is excluded, a live
\* tracked root without an entry in the archive, or a live path beneath one.
C36_RestoreDeletesNoGuardedPath ==
    [][rs.pc = "run" => \A q \in Paths : KeptApart(q) => Exists(fs'[q])]_vars

----------------------------------------------------------------------------
(* The default origin of a diff.                                           *)

\* C37: a diff called without from_time compares from a snapshot strictly
\* older than the snapshot it compares to, whatever is stored and whether
\* to_time is given or left out.
C37_DefaultFromOlderThanTo ==
    (dq.status = "ok" /\ dq.from_time = NoTime) => dq.from.time < dq.to.time

----------------------------------------------------------------------------
(* Persisting and generating in one run.                                   *)

\* the places in the log of the run where the map was persisted, and where
\* _generate_archive was called
Persists == {i \in 1..Len(hist.log) : hist.log[i] = "persist"}
Generations == {i \in 1..Len(hist.log) : hist.log[i] \in {"sync", "generate"}}

\* C38: a backup run persists the new map exactly if it calls
\* _generate_archive in the same run, and it persists first: a call of
\* _generate_archive has a persist before it, and a run that has persisted
\* and not generated is a run that has not ended.
C38_PersistIffGenerate ==
    /\ \A i \in Generations : \E j \in Persists : j < i
    /\ (Persists # {} /\ Generations = {}) => bk.pc = "persisted"
    /\ bk.pc = "done" => Cardinality(Persists) = Cardinality(Generations)

\* a second, forced run has persisted its map and then generated the archive
C38_Witness ==
    /\ bk.pc = "done" /\ bk.force
    /\ hist.runs = 2
    /\ Persists # {} /\ Generations # {}
    /\ archive_metadata = bk.archive_metadata

----------------------------------------------------------------------------
(* The order of the tracked roots.                                         *)

\* the configuration with its tracked paths in the opposite order
Reversed(c) ==
    [c EXCEPT !.tracked = [i \in 1..Len(c.tracked) |-> c.tracked[Len(c.tracked) + 1 - i]]]

\* no two tracked paths name one system path
DistinctRoots(c) ==
    \A i, j \in 1..Len(c.tracked) :
        i # j => expand_path(c.tracked[i].path) # expand_path(c.tracked[j].path)

\* C39: over one filesystem, one set of exclusions and one set of tracked
\* roots, the walk of a backup run ends with the same worthy set and the same
\* metadata map when the roots are visited in the opposite order.
C39_WalkIndependentOfRootOrder ==
    (bk.pc = "scanned" /\ DistinctRoots(conf)) =>
        LET h == ScanTracked(fs, Reversed(conf), NewWalk, 1)
        IN /\ h.result = bk.result
           /\ StripNone(h.archive_metadata) = bk.archive_metadata

====
